---- MODULE Spec2Model ----
(***************************************************************************)
(* A model of the experiment generation and expansion engine of ramble:    *)
(*   - the chain builder   (ApplicationBase.create_experiment_chain)       *)
(*   - the log analyzer    (ApplicationBase._analyze_experiments)          *)
(*   - the expander        (Expander.expand_var and the math evaluator)    *)
(*   - the experiment set  (set_*_context, get_var_from_experiment)        *)
(* Each part has its own specification (ChainSpec, AnalyzeSpec, ...) over  *)
(* its own variables; the variables of the other parts stay at their idle  *)
(* value.                                                                  *)
(***************************************************************************)
EXTENDS Integers, Sequences, FiniteSets, TLC

VARIABLES
    \* ---- chain builder -------------------------------------------------
    chained_experiments, \* experiment -> its list of chain entries
    is_template,         \* experiment -> BOOLEAN
    chain_pc,            \* "idle" | "loop" | "error" | "done"
    chain_err,           \* "" or the name of the error raised
    chain_self,          \* the root create_experiment_chain runs on
    chain_built,         \* roots whose create_experiment_chain returned
    chain_stack,         \* list of frames [name, def]; the top is the last
    classes_in_stack,    \* set of experiments
    chain_idx,
    chain_prepend,       \* root -> list of chained names
    chain_append,        \* root -> list of chained names
    chain_order,         \* instance name -> list of names
    chain_commands,      \* chained name -> command of its entry
    es_chained,          \* names registered by add_chained_experiment
    clone_def,           \* history: chained name -> the entry it was made from
    chain_visited,       \* history: loop configurations of the current run
    experiment_run_dir,  \* instance name -> its variable experiment_run_dir
    chain_closed,        \* history: root -> the experiments copied for it, in order
    \* ---- log analyzer --------------------------------------------------
    an_conf,             \* the declarations: [f2, criteria]
    an_logs,             \* log file -> its lines
    an_pc,               \* "off" | "files" | "lines" | "done"
    an_file,             \* position in the files of the experiment
    an_line,             \* lines of the current file read so far
    active_contexts,     \* dict: context -> its display value
    fom_values,          \* dict: display value -> dict: FOM name -> value
    criteria_found,      \* the success criteria marked found
    results,             \* the result appended to the workspace, or <<>>
    an_workspace,        \* the attributes of the workspace read so far
    \* ---- expander ------------------------------------------------------
    experiments,         \* namespace of an experiment -> its variables
    ex_self,             \* the experiment whose expander is called
    ex_pc,               \* "off" | "ready" | "returned" | "extra" | "later" | "listed"
    ex_var,              \* the string given to expand_var
    ex_passthrough,      \* allow_passthrough
    ex_extra,            \* extra_vars
    ex_result,           \* what the call returned or raised
    \* ---- experiment set -----------------------------------------------
    set_pc,              \* "off" | "open" | "error"
    application_context, \* the application scope: [defined, name, variables]
    workload_context,    \* the workload scope
    experiment_order,    \* the namespaces of the experiments, as added
    set_err,             \* "" or the error the set died of
    set_calls,           \* the calls made
    set_call,            \* history: the last call and the set before it
    \* ---- inventory ----------------------------------------------------
    inv_pc,              \* "off" | "setup" | "error"
    inv_workspace,       \* instance -> its workspace: [root, templates]
    inv_self,            \* instance -> the attributes of the application instance
    hash_inventory,      \* instance -> its attribute hash_inventory
    experiment_hash,     \* instance -> its attribute experiment_hash, <<>> for None
    inv_files,           \* instance -> the inventory file it wrote: [path, content]
    inv_writes,          \* instance -> the runs of the phase write_inventory
    \* ---- application instance: phases ---------------------------------
    ph_pc,               \* "off" | "idle" | "error"
    ph_err,              \* "" or the name of the error run_phase raised last
    ph_modifiers,        \* the references of the attribute modifiers
    modifier_instances,  \* the attribute _modifier_instances
    modifier_builtins,   \* the keys of the attribute _modifier_builtins
    workload_executables,  \* the executables of the workload of the experiment
    internals_executables, \* the executables of internals, <<>> for none
    ph_prepend,          \* the attribute chain_prepend
    ph_append,           \* the attribute chain_append
    ph_template,         \* the attribute is_template
    ph_env_sets,         \* the attribute _env_variable_sets
    vars_are_expanded,   \* the attribute _vars_are_expanded
    ph_variables,        \* the attribute variables
    ph_input_fetchers,   \* the attribute _input_fetchers, <<>> for None
    ph_ran,              \* the phase whose function was called last, "" for none
    ph_phases            \* the calls of run_phase

chainVars == <<chained_experiments, is_template, chain_pc, chain_err, chain_self,
               chain_built, chain_stack, classes_in_stack, chain_idx,
               chain_prepend, chain_append, chain_order, chain_commands,
               es_chained, clone_def, chain_visited, experiment_run_dir, chain_closed>>

anVars == <<an_conf, an_logs, an_pc, an_file, an_line, active_contexts, fom_values,
            criteria_found, results, an_workspace>>

exVars == <<experiments, ex_self, ex_pc, ex_var, ex_passthrough, ex_extra, ex_result>>

setVars == <<set_pc, application_context, workload_context, experiment_order,
             set_err, set_calls, set_call>>

invVars == <<inv_pc, inv_workspace, inv_self, hash_inventory, experiment_hash, inv_files,
             inv_writes>>

phVars == <<ph_pc, ph_err, ph_modifiers, modifier_instances, modifier_builtins,
            workload_executables, internals_executables, ph_prepend, ph_append, ph_template,
            ph_env_sets,
            vars_are_expanded, ph_variables, ph_input_fetchers, ph_ran, ph_phases>>

vars == <<chainVars, anVars, exVars, setVars, invVars, phVars>>

(***************************************************************************)
(* Sequence helpers                                                        *)
(***************************************************************************)
Reverse(s) == [i \in 1..Len(s) |-> s[Len(s) + 1 - i]]

Range(s) == {s[i] : i \in 1..Len(s)}

RECURSIVE Flatten(_)
Flatten(ss) == IF ss = <<>> THEN <<>> ELSE Head(ss) \o Flatten(Tail(ss))

\* the lists over S of length at most n
SeqsUpTo(S, n) == UNION {[1..k -> S] : k \in 0..n}

(***************************************************************************)
(* Chain builder                                                           *)
(***************************************************************************)
\* bound: the chain entries declared over all experiments together
MaxEntries == 2

\* bound: chained experiments one root may register before the model stops
\* following a traversal (a terminating traversal stays far below it)
MaxClones == 8

\* the primary experiments of the experiment set, in registration order
ExpOrder == <<"e1", "e2", "e3">>

Exps == Range(ExpOrder)

possible_orders == {"after_chain", "after_root", "before_chain", "before_root"}

\* A chain entry.  name = "none": the entry has no `name` key;
\* order = "none": the entry has no `order` key;
\* command = NoCommand: the entry has no `command` key.
\* A command is the sequence of its pieces: the command of a declaration is
\* the placeholder of the template execute_experiment.
NoCommand == <<>>

CommandTemplate == <<"{execute_experiment}">>

GoodEntries ==
    [name : Exps, order : possible_orders \cup {"none"}, command : {CommandTemplate}]

\* an entry that names no experiment, one with an unknown order, one
\* without a command
OddEntries == {[name |-> "missing", order |-> "none", command |-> CommandTemplate],
               [name |-> "e2", order |-> "foo", command |-> CommandTemplate],
               [name |-> "e2", order |-> "none", command |-> NoCommand],
               [name |-> "none", order |-> "none", command |-> CommandTemplate]}

EntryPool == GoodEntries \cup OddEntries

\* the name of a primary experiment, and of the copy made for a chain entry:
\* f'{parent_namespace}.chain.{chain_idx}.{cur_exp_name}'
PrimaryName(e) == [parent |-> e, chained |-> <<>>]

ChainedName(parent, idx, cur) == [parent |-> parent, chained |-> <<idx, cur>>]

\* ExperimentSet.search_primary_experiments: the primary experiments that a
\* chain entry's name refers to
search_primary_experiments(name) == IF name \in Exps THEN <<name>> ELSE <<>>

\* the frames pushed for the chain of `inst`: outer loop over the reversed
\* chain, inner loop over the experiments each entry names
RECURSIVE FramesOf(_, _)
FramesOf(inst, k) ==
    IF k = 0 THEN <<>>
    ELSE [i \in 1..Len(search_primary_experiments(chained_experiments[inst][k].name)) |->
            [name |-> search_primary_experiments(chained_experiments[inst][k].name)[i],
             def |-> <<inst, k>>]]
         \o FramesOf(inst, k - 1)

ChildFrames(inst) == FramesOf(inst, Len(chained_experiments[inst]))

\* `child_inst in classes_in_stack` is tested before each push; the frames
\* before the first hit are pushed, and the hit raises
CycleAmong(frames, classes) == \E i \in 1..Len(frames) : frames[i].name \in classes

\* lines 445-455 and 550-561, from entry k of the chain of inst down to the
\* first: exp['name'] of an entry without a name is a KeyError, and an
\* experiment of classes_in_stack is a cycle
RECURSIVE PushError(_, _, _)
PushError(inst, k, classes) ==
    IF k = 0 THEN ""
    ELSE IF chained_experiments[inst][k].name = "none" THEN "KeyError"
    ELSE IF CycleAmong([i \in 1..Len(search_primary_experiments(
                                        chained_experiments[inst][k].name)) |->
                           [name |-> search_primary_experiments(
                                         chained_experiments[inst][k].name)[i]]],
                       classes)
    THEN "ChainCycleDetectedError"
    ELSE PushError(inst, k - 1, classes)

\* the variable experiment_run_dir of a primary experiment, a path as the
\* list of its parts
RunDir(e) == <<"experiments", e>>

\* namespace.chained_experiments
chained_experiments_dir == "chained_experiments"

\* f'{chain_idx}.{cur_exp_name}'
ChainedDir(idx, cur) == <<idx, cur>>

\* the mutant: the directory of the chained experiments is left out
Mutpath_join(path, part, name) == path \o <<name>>

\* os.path.join of a path and two relative parts
path_join(path, part, name) == path \o <<part, name>>

EntryOf(frame) == chained_experiments[frame.def[1]][frame.def[2]]

\* lines 498-500
OrderOf(entry) == IF entry.order = "none" THEN "after_root" ELSE entry.order

\* lines 508-515, as the pair <<chain_prepend, chain_append>>
MutChainInsert(order, prepend, append, new_name) ==
    IF order \in {"before_chain", "before_root"}
    THEN <<Append(prepend, new_name), append>>
    ELSE <<prepend, Append(append, new_name)>>

ChainInsert(order, prepend, append, new_name) ==
    CASE order = "before_chain" -> <<(<<new_name>> \o prepend), append>>
      [] order = "before_root"  -> <<Append(prepend, new_name), append>>
      [] order = "after_root"   -> <<prepend, (<<new_name>> \o append)>>
      [] order = "after_chain"  -> <<prepend, Append(append, new_name)>>
      [] OTHER                  -> <<prepend, append>>

\* the mutant: the root comes last
MutFinalOrder(root) == chain_prepend[root] \o chain_append[root] \o <<PrimaryName(root)>>

\* lines 566-570
FinalOrder(root) == chain_prepend[root] \o <<PrimaryName(root)>> \o chain_append[root]

\* the roots build_experiment_chains has still to visit, in order
NextRoots == SelectSeq(ExpOrder, LAMBDA e : e \notin chain_built)

\* the chain declarations of a workspace: entries given to experiments one
\* by one, each appended to the chain of its experiment
RECURSIVE Declared(_, _)
Declared(decl, e) ==
    IF decl = <<>> THEN <<>>
    ELSE IF Head(decl)[1] = e
         THEN <<Head(decl)[2]>> \o Declared(Tail(decl), e)
         ELSE Declared(Tail(decl), e)

ChainInit ==
    /\ \E decl \in SeqsUpTo(Exps \X EntryPool, MaxEntries) :
          chained_experiments = [e \in Exps |-> Declared(decl, e)]
    /\ is_template \in [Exps -> BOOLEAN]
    /\ \A e \in Exps : is_template[e] => e = ExpOrder[Len(ExpOrder)]
    /\ chain_pc = "idle"
    /\ chain_err = ""
    /\ chain_self = "none"
    /\ chain_built = {}
    /\ chain_stack = <<>>
    /\ classes_in_stack = {}
    /\ chain_idx = 0
    /\ chain_prepend = [e \in Exps |-> <<>>]
    /\ chain_append = [e \in Exps |-> <<>>]
    /\ chain_order = [n \in {PrimaryName(e) : e \in Exps} |-> <<>>]
    /\ chain_commands = <<>>
    /\ es_chained = {}
    /\ clone_def = <<>>
    /\ chain_visited = {}
    /\ experiment_run_dir = [n \in {PrimaryName(e) : e \in Exps} |-> RunDir(n.parent)]
    /\ chain_closed = [e \in Exps |-> <<>>]

ChainIdle ==
    /\ chained_experiments = <<>>
    /\ is_template = <<>>
    /\ chain_pc = "off"
    /\ chain_err = ""
    /\ chain_self = "none"
    /\ chain_built = {}
    /\ chain_stack = <<>>
    /\ classes_in_stack = {}
    /\ chain_idx = 0
    /\ chain_prepend = <<>>
    /\ chain_append = <<>>
    /\ chain_order = <<>>
    /\ chain_commands = <<>>
    /\ es_chained = {}
    /\ clone_def = <<>>
    /\ chain_visited = {}
    /\ experiment_run_dir = <<>>
    /\ chain_closed = <<>>

ChainRaise(err) ==
    /\ chain_pc' = "error"
    /\ chain_err' = err

\* build_experiment_chains reaches an experiment that has no chain, or is a
\* template: create_experiment_chain returns at once (line 434)
ChainSkip ==
    /\ chain_pc = "idle"
    /\ NextRoots # <<>>
    /\ LET self == Head(NextRoots) IN
        /\ chained_experiments[self] = <<>> \/ is_template[self]
        /\ chain_built' = chain_built \cup {self}
        /\ chain_pc' = IF Len(NextRoots) = 1 THEN "done" ELSE "idle"
    /\ UNCHANGED <<anVars, exVars, setVars, invVars, phVars>>
    /\ UNCHANGED <<chained_experiments, is_template, chain_err, chain_self, chain_stack,
                   classes_in_stack, chain_idx, chain_prepend, chain_append,
                   chain_order, chain_commands, es_chained, clone_def, chain_visited,
                   experiment_run_dir, chain_closed>>

\* lines 437-456: the initial stack of the next root
ChainStart ==
    /\ chain_pc = "idle"
    /\ NextRoots # <<>>
    /\ LET self == Head(NextRoots) IN
        /\ chained_experiments[self] # <<>>
        /\ ~is_template[self]
        /\ chain_self' = self
        /\ chain_idx' = 0
        /\ chain_visited' = {}
        /\ IF PushError(self, Len(chained_experiments[self]), {self}) # ""
           THEN /\ ChainRaise(PushError(self, Len(chained_experiments[self]), {self}))
                /\ UNCHANGED <<chain_stack, classes_in_stack>>
           ELSE /\ chain_pc' = "loop"
                /\ chain_stack' = ChildFrames(self)
                /\ classes_in_stack' = {self}
                /\ UNCHANGED chain_err
    /\ UNCHANGED <<anVars, exVars, setVars, invVars, phVars>>
    /\ UNCHANGED <<chained_experiments, is_template, chain_built, chain_prepend,
                   chain_append, chain_order, chain_commands, es_chained, clone_def,
                   experiment_run_dir, chain_closed>>

Top == chain_stack[Len(chain_stack)]

Pop(s) == SubSeq(s, 1, Len(s) - 1)

\* lines 463-491: the checks made on the entry of the top frame
EntryInvalid(entry) ==
    \/ entry.name = "none"
    \/ (entry.order # "none" /\ entry.order \notin possible_orders)
    \/ entry.command = NoCommand

ChainInvalid ==
    /\ chain_pc = "loop"
    /\ chain_stack # <<>>
    /\ EntryInvalid(EntryOf(Top))
    /\ ChainRaise("InvalidChainError")
    /\ UNCHANGED <<anVars, exVars, setVars, invVars, phVars>>
    /\ UNCHANGED <<chained_experiments, is_template, chain_self, chain_built, chain_stack,
                   classes_in_stack, chain_idx, chain_prepend, chain_append,
                   chain_order, chain_commands, es_chained, clone_def, chain_visited,
                   experiment_run_dir, chain_closed>>

\* lines 737-744 and 537: expand_var of the command of an entry by the
\* expander of the copy, whose variable execute_experiment is the path of the
\* template in its run directory; a command without placeholder is itself
chain_cmd(command, new_run_dir) ==
    IF command = CommandTemplate THEN new_run_dir \o <<"execute_experiment">>
    ELSE command

\* line 539: cur_exp_def[keywords.command] = chain_cmd, cur_exp_def being
\* entry def[2] of the chain of experiment def[1]
SetCommand(entries, def, command) ==
    [entries EXCEPT ![def[1]][def[2]].command = command]

\* lines 493-541: the experiment of the top frame is in classes_in_stack; the
\* frame is popped and a copy of the experiment registered under a new name
ChainClose ==
    /\ chain_pc = "loop"
    /\ chain_stack # <<>>
    /\ ~EntryInvalid(EntryOf(Top))
    /\ Top.name \in classes_in_stack
    /\ chain_idx < MaxClones
    /\ LET order == OrderOf(EntryOf(Top))
           new_name == ChainedName(chain_self, chain_idx, Top.name)
           lists == ChainInsert(order, chain_prepend[chain_self],
                                chain_append[chain_self], new_name)
           new_run_dir == path_join(experiment_run_dir[PrimaryName(chain_self)],
                                    chained_experiments_dir,
                                    ChainedDir(chain_idx, Top.name))
           command == chain_cmd(EntryOf(Top).command, new_run_dir)
       IN
        /\ chain_stack' = Pop(chain_stack)
        /\ classes_in_stack' = classes_in_stack \ {Top.name}
        /\ chain_prepend' = [chain_prepend EXCEPT ![chain_self] = lists[1]]
        /\ chain_append' = [chain_append EXCEPT ![chain_self] = lists[2]]
        /\ chain_commands' = (new_name :> command) @@ chain_commands
        /\ chained_experiments' = SetCommand(chained_experiments, Top.def, command)
        /\ clone_def' = (new_name :> Top.def) @@ clone_def
        /\ experiment_run_dir' = (new_name :> new_run_dir) @@ experiment_run_dir
        /\ chain_closed' = [chain_closed EXCEPT ![chain_self] = Append(@, Top.name)]
        /\ es_chained' = es_chained \cup {new_name}
        /\ chain_order' = (new_name :> <<>>) @@ chain_order
        /\ chain_idx' = chain_idx + 1
    /\ chain_visited' = chain_visited \cup {<<chain_stack, classes_in_stack>>}
    /\ UNCHANGED <<anVars, exVars, setVars, invVars, phVars>>
    /\ UNCHANGED <<is_template, chain_pc, chain_err, chain_self, chain_built>>

\* lines 542-563: first visit of the top frame; the chain of its experiment
\* is pushed and the experiment joins classes_in_stack
ChainOpen ==
    /\ chain_pc = "loop"
    /\ chain_stack # <<>>
    /\ ~EntryInvalid(EntryOf(Top))
    /\ Top.name \notin classes_in_stack
    /\ IF PushError(Top.name, Len(chained_experiments[Top.name]), classes_in_stack) # ""
       THEN /\ ChainRaise(PushError(Top.name, Len(chained_experiments[Top.name]),
                                    classes_in_stack))
            /\ UNCHANGED <<chain_stack, classes_in_stack>>
       ELSE /\ chain_stack' = chain_stack \o ChildFrames(Top.name)
            /\ classes_in_stack' = classes_in_stack \cup {Top.name}
            /\ UNCHANGED <<chain_pc, chain_err>>
    /\ chain_visited' = chain_visited \cup {<<chain_stack, classes_in_stack>>}
    /\ UNCHANGED <<anVars, exVars, setVars, invVars, phVars>>
    /\ UNCHANGED <<chained_experiments, is_template, chain_self, chain_built, chain_idx,
                   chain_prepend, chain_append, chain_order, chain_commands,
                   es_chained, clone_def, experiment_run_dir, chain_closed>>

\* lines 565-581: the stack is empty; the final order is built and copied
\* into every chained experiment of the root
ChainFinish ==
    /\ chain_pc = "loop"
    /\ chain_stack = <<>>
    /\ chain_order' = [n \in DOMAIN chain_order |->
                          IF n = PrimaryName(chain_self)
                             \/ n \in Range(chain_prepend[chain_self])
                             \/ n \in Range(chain_append[chain_self])
                          THEN chain_order[PrimaryName(chain_self)] \o FinalOrder(chain_self)
                          ELSE chain_order[n]]
    /\ chain_built' = chain_built \cup {chain_self}
    /\ chain_pc' = IF Len(NextRoots) = 1 THEN "done" ELSE "idle"
    /\ UNCHANGED <<anVars, exVars, setVars, invVars, phVars>>
    /\ UNCHANGED <<chained_experiments, is_template, chain_err, chain_self, chain_stack,
                   classes_in_stack, chain_idx, chain_prepend, chain_append,
                   chain_commands, es_chained, clone_def, chain_visited,
                   experiment_run_dir, chain_closed>>

ChainNext ==
    \/ ChainSkip
    \/ ChainStart
    \/ ChainInvalid
    \/ ChainClose
    \/ ChainOpen
    \/ ChainFinish

(***************************************************************************)
(* Python dicts, as lists of <<key, value>> in insertion order             *)
(***************************************************************************)
DictHas(d, k) == \E i \in 1..Len(d) : d[i][1] = k

DictGet(d, k) == d[CHOOSE i \in 1..Len(d) : d[i][1] = k][2]

DictSet(d, k, v) ==
    IF DictHas(d, k)
    THEN [i \in 1..Len(d) |-> IF d[i][1] = k THEN <<k, v>> ELSE d[i]]
    ELSE Append(d, <<k, v>>)

DictKeys(d) == [i \in 1..Len(d) |-> d[i][1]]

RECURSIVE Dedup(_)
Dedup(s) ==
    IF s = <<>> THEN <<>>
    ELSE LET front == Dedup(Pop(s)) IN
         IF s[Len(s)] \in Range(front) THEN front ELSE Append(front, s[Len(s)])

(***************************************************************************)
(* Log analyzer: ApplicationBase._analyze_experiments and _analysis_dicts  *)
(*                                                                         *)
(* A log line is the record of what the regexes of the experiment find in  *)
(* it: ctx[c] and fom[f] are the text captured by the regex of context c   *)
(* and of FOM f (0: the regex does not match the line), crit tells whether *)
(* the regex of the string success criterion matches.                      *)
(***************************************************************************)
MaxLines == 3

Contexts == {"c1", "c2"}

FomOrder == <<"f1", "f2">>

Foms == Range(FomOrder)

LogFiles == {1, 2}

NoMatch == 0

Line(c1, c2, f1, f2, crit) ==
    [ctx |-> [c \in Contexts |-> IF c = "c1" THEN c1 ELSE c2],
     fom |-> [f \in Foms |-> IF f = "f1" THEN f1 ELSE f2],
     crit |-> crit]

LinePool == {Line(1, 0, 0, 0, FALSE), Line(2, 0, 0, 0, FALSE), Line(0, 1, 0, 0, FALSE),
             Line(0, 0, 1, 0, FALSE), Line(0, 0, 0, 1, FALSE), Line(2, 0, 2, 0, FALSE),
             Line(0, 0, 0, 0, TRUE)}

\* figure_of_merit_context(name, regex, output_format)
figure_of_merit_contexts ==
    [c \in Contexts |-> [output_format |-> IF c = "c1" THEN "A" ELSE "B"]]

\* figure_of_merit(name, log_file, fom_regex, group_name, units, contexts);
\* group tells whether group_name is a group of fom_regex
F2Pool == {[contexts |-> <<>>, group |-> TRUE, log_file |-> 1],
           [contexts |-> <<"c1">>, group |-> TRUE, log_file |-> 1],
           [contexts |-> <<"c1">>, group |-> TRUE, log_file |-> 2],
           [contexts |-> <<>>, group |-> FALSE, log_file |-> 2]}

figures_of_merit(conf) ==
    [f \in Foms |-> IF f = "f1"
                    THEN [contexts |-> <<"c1", "c2">>, group |-> TRUE, log_file |-> 1, units |-> ""]
                    ELSE [contexts |-> conf.f2.contexts, group |-> conf.f2.group,
                          log_file |-> conf.f2.log_file, units |-> ""]]

\* self.name
application_name == "a"

\* lines 1227-1230, 1256-1266: the FOMs of the application, their origin set
fom_definitions(conf) ==
    [f \in Foms |-> [contexts |-> figures_of_merit(conf)[f].contexts,
                     group |-> figures_of_merit(conf)[f].group,
                     log_file |-> figures_of_merit(conf)[f].log_file,
                     units |-> figures_of_merit(conf)[f].units,
                     origin |-> application_name,
                     origin_type |-> "application"]]

\* success_criteria: at most one criterion of mode 'string', read in file 1
CriteriaPool == {<<>>, <<"crit">>}

AllCriteria(conf) == Range(conf.criteria) \cup {"_application_function"}

\* lines 1216-1257: the files to read, those of the criteria first
AnalysisFiles(conf) ==
    Dedup((IF conf.criteria = <<>> THEN <<>> ELSE <<1>>)
          \o [i \in 1..Len(FomOrder) |-> figures_of_merit(conf)[FomOrder[i]].log_file])

FileFoms(conf, file) ==
    SelectSeq(FomOrder, LAMBDA f : figures_of_merit(conf)[f].log_file = file)

FileConf(conf, file) ==
    [success_criteria |-> IF file = 1 THEN conf.criteria ELSE <<>>,
     contexts |-> Flatten([i \in 1..Len(FileFoms(conf, file)) |->
                             figures_of_merit(conf)[FileFoms(conf, file)[i]].contexts]),
     foms |-> FileFoms(conf, file)]

\* lines 1046-1056: the display value is made of the format and of the text
\* the format's fields take from the match
format_context(context_match, context_format) ==
    [format |-> context_format, groups |-> context_match]

NullContext == [format |-> "null", groups |-> NoMatch]

\* line 1105: the name of a FOM has no placeholder and expands to itself
FomName(fom) == fom

\* lines 1074-1078
MarkCriteria(found, criteria, line) ==
    found \cup {criteria[i] : i \in {j \in 1..Len(criteria) : line.crit}}

MutActivateContext(active, context, context_name) ==
    IF DictHas(active, context) THEN active ELSE DictSet(active, context, context_name)

\* line 1092
ActivateContext(active, context, context_name) == DictSet(active, context, context_name)

\* lines 1080-1095, on <<active_contexts, fom_values>>
RECURSIVE MatchContexts(_, _, _, _)
MatchContexts(contexts, line, active, values) ==
    IF contexts = <<>> THEN <<active, values>>
    ELSE LET context == Head(contexts)
             context_name == format_context(line.ctx[context],
                                 figure_of_merit_contexts[context].output_format)
         IN  IF line.ctx[context] # NoMatch
             THEN MatchContexts(Tail(contexts), line,
                      ActivateContext(active, context, context_name),
                      IF DictHas(values, context_name) THEN values
                      ELSE DictSet(values, context_name, <<>>))
             ELSE MatchContexts(Tail(contexts), line, active, values)

MutFomContexts(fom_conf, active) == <<NullContext>>

\* lines 1109-1117
FomContexts(fom_conf, active) ==
    IF fom_conf.contexts # <<>>
    THEN [i \in 1..Len(fom_conf.contexts) |->
            IF DictHas(active, fom_conf.contexts[i])
            THEN DictGet(active, fom_conf.contexts[i])
            ELSE NullContext]
    ELSE <<NullContext>>

\* the mutant: the value is recorded under the first context only
MutRecordFom(fom_contexts, fom_name, fom_val, values) ==
    IF fom_contexts = <<>> THEN values
    ELSE DictSet(values, Head(fom_contexts),
                 DictSet(IF DictHas(values, Head(fom_contexts))
                         THEN DictGet(values, Head(fom_contexts)) ELSE <<>>,
                         fom_name, fom_val))

\* the mutant: the value a FOM has under the context already is kept
MutSetFom(fom_map, fom_name, fom_val) ==
    IF DictHas(fom_map, fom_name) THEN fom_map ELSE DictSet(fom_map, fom_name, fom_val)

\* lines 1122-1128: fom_values[context][fom_name] = {...}
SetFom(fom_map, fom_name, fom_val) == DictSet(fom_map, fom_name, fom_val)

\* lines 1119-1128
RECURSIVE RecordFom(_, _, _, _)
RecordFom(fom_contexts, fom_name, fom_val, values) ==
    IF fom_contexts = <<>> THEN values
    ELSE LET context == Head(fom_contexts)
             fom_map == IF DictHas(values, context) THEN DictGet(values, context) ELSE <<>>
         IN  RecordFom(Tail(fom_contexts), fom_name, fom_val,
                       DictSet(values, context, SetFom(fom_map, fom_name, fom_val)))

\* lines 1097-1128
RECURSIVE MatchFoms(_, _, _, _, _)
MatchFoms(foms, conf, line, active, values) ==
    IF foms = <<>> THEN values
    ELSE LET fom == Head(foms)
             fom_conf == fom_definitions(conf)[fom]
         IN  IF line.fom[fom] # NoMatch /\ fom_conf.group
             THEN MatchFoms(Tail(foms), conf, line, active,
                      RecordFom(FomContexts(fom_conf, active), FomName(fom),
                                [value |-> line.fom[fom], units |-> fom_conf.units,
                                 origin |-> fom_conf.origin,
                                 origin_type |-> fom_conf.origin_type], values))
             ELSE MatchFoms(Tail(foms), conf, line, active, values)

CurFile == AnalysisFiles(an_conf)[an_file]

\* the lines of a configuration: without criterion no regex finds one
ConfLines(conf) == {line \in LinePool : line.crit => conf.criteria # <<>>}

AnalyzeInit ==
    /\ an_conf \in [f2 : F2Pool, criteria : CriteriaPool]
    /\ \E lines \in SeqsUpTo(ConfLines(an_conf), MaxLines), k \in 0..MaxLines :
        /\ k <= Len(lines)
        /\ 2 \notin Range(AnalysisFiles(an_conf)) => k = Len(lines)
        /\ an_logs = <<SubSeq(lines, 1, k), SubSeq(lines, k + 1, Len(lines))>>
    /\ an_pc = "files"
    /\ an_file = 0
    /\ an_line = 0
    /\ active_contexts = <<>>
    /\ fom_values = <<>>
    /\ criteria_found = {}
    /\ results = <<>>
    /\ an_workspace = <<>>

AnalyzeIdle ==
    /\ an_conf = <<>>
    /\ an_logs = <<>>
    /\ an_pc = "off"
    /\ an_file = 0
    /\ an_line = 0
    /\ active_contexts = <<>>
    /\ fom_values = <<>>
    /\ criteria_found = {}
    /\ results = <<>>
    /\ an_workspace = <<>>

\* the mutant: the contexts active at the end of the file before stay active
MutOpenContexts(active) == active

\* line 1068: active_contexts = {}
OpenContexts(active) == <<>>

\* lines 1065-1071: the next file is opened, with no active context
AnalyzeOpen ==
    /\ an_pc = "files"
    /\ an_file < Len(AnalysisFiles(an_conf))
    /\ an_file' = an_file + 1
    /\ an_line' = 0
    /\ active_contexts' = OpenContexts(active_contexts)
    /\ an_pc' = IF an_logs[AnalysisFiles(an_conf)[an_file + 1]] = <<>>
                THEN "files" ELSE "lines"
    /\ UNCHANGED <<an_conf, an_logs, fom_values, criteria_found, results, an_workspace>>
    /\ UNCHANGED <<chainVars, exVars, setVars, invVars, phVars>>

\* lines 1072-1128: one line of the open file
AnalyzeLine ==
    /\ an_pc = "lines"
    /\ LET line == an_logs[CurFile][an_line + 1]
           file_conf == FileConf(an_conf, CurFile)
           matched == MatchContexts(file_conf.contexts, line, active_contexts, fom_values)
       IN
        /\ criteria_found' = MarkCriteria(criteria_found, file_conf.success_criteria, line)
        /\ active_contexts' = matched[1]
        /\ fom_values' = MatchFoms(file_conf.foms, an_conf, line, matched[1], matched[2])
    /\ an_line' = an_line + 1
    /\ an_pc' = IF an_line + 1 = Len(an_logs[CurFile]) THEN "files" ELSE "lines"
    /\ UNCHANGED <<an_conf, an_logs, an_file, results, an_workspace>>
    /\ UNCHANGED <<chainVars, exVars, setVars, invVars, phVars>>

\* line 1140, criteria_list.passed(): every criterion was marked found
CriteriaPassed(conf, found) == AllCriteria(conf) \subseteq found

\* lines 1155-1165
ContextsOf(values) ==
    [i \in 1..Len(values) |->
        [name |-> values[i][1],
         foms |-> [j \in 1..Len(values[i][2]) |->
                     [name |-> values[i][2][j][1],
                      value |-> values[i][2][j][2].value,
                      units |-> values[i][2][j][2].units,
                      origin |-> values[i][2][j][2].origin,
                      origin_type |-> values[i][2][j][2].origin_type]]]]

(***************************************************************************)
(* Expander: strings                                                       *)
(*                                                                         *)
(* A string is the sequence of its characters. The strings of the model    *)
(* are written with braces, blanks, dots, the signs / + -, decimal digits  *)
(* and the letters of Letters; these are the characters the formatter, the *)
(* tokenizer and the parser below know. The letters E, l, p and s occur in *)
(* the name Ellipsis only.                                                 *)
(***************************************************************************)
DigitChars == <<"0", "1", "2", "3", "4", "5", "6", "7", "8", "9">>

Letters == {"a", "c", "i", "n", "v"}

\* the letters of the name str() gives the Ellipsis constant
EllipsisLetters == {"E", "l", "p", "s"}

\* the letters of the names str() gives True and False
BoolLetters == {"T", "r", "u", "e", "F"}

\* the letters that occur in the words and, or, range and None only
KeywordLetters == {"d", "o", "g", "N"}

IsDigit(ch) == ch \in Range(DigitChars)

IsLetter(ch) == ch \in Letters \cup EllipsisLetters \cup BoolLetters \cup KeywordLetters

DigitVal(ch) == (CHOOSE d \in 1..10 : DigitChars[d] = ch) - 1

\* the first position of s from i on whose character is in chars, or 0
RECURSIVE FindChar(_, _, _)
FindChar(s, i, chars) ==
    IF i > Len(s) THEN 0
    ELSE IF s[i] \in chars THEN i
    ELSE FindChar(s, i + 1, chars)

\* str.lstrip()
RECURSIVE lstrip(_)
lstrip(s) == IF s # <<>> /\ Head(s) = " " THEN lstrip(Tail(s)) ELSE s

\* str(n) of an integer
RECURSIVE NatStr(_)
NatStr(n) == IF n < 10 THEN <<DigitChars[n + 1]>>
             ELSE NatStr(n \div 10) \o <<DigitChars[(n % 10) + 1]>>

IntStr(n) == IF n < 0 THEN <<"-">> \o NatStr(-n) ELSE NatStr(n)

(***************************************************************************)
(* string.Formatter.parse: the tuples (literal_text, field_name) of a      *)
(* format string, and the ValueError the iterator raises after them        *)
(***************************************************************************)
Literal(text) == [literal_text |-> text, is_field |-> FALSE, field_name |-> <<>>]

Field(text, name) == [literal_text |-> text, is_field |-> TRUE, field_name |-> name]

Parsed(tuples, err) == [tuples |-> tuples, err |-> err]

Then(tuple, parsed) == Parsed(<<tuple>> \o parsed.tuples, parsed.err)

RECURSIVE MarkupFrom(_, _)
MarkupFrom(s, i) ==
    IF i > Len(s) THEN Parsed(<<>>, "")
    ELSE LET j == FindChar(s, i, {"{", "}"}) IN
         IF j = 0 THEN Parsed(<<Literal(SubSeq(s, i, Len(s)))>>, "")
         ELSE IF s[j] = "}" /\ (j = Len(s) \/ s[j + 1] # "}")
              THEN Parsed(<<>>, "ValueError")    \* Single '}' encountered
         ELSE IF j = Len(s)
              THEN Parsed(<<>>, "ValueError")    \* Single '{' encountered
         ELSE IF s[j + 1] = s[j]
              THEN Then(Literal(SubSeq(s, i, j)), MarkupFrom(s, j + 2))
         ELSE LET k == FindChar(s, j + 1, {"{", "}"}) IN
              IF k = 0 \/ s[k] = "{"
              THEN Parsed(<<>>, "ValueError")    \* unexpected '{', expected '}'
              ELSE Then(Field(SubSeq(s, i, j - 1), SubSeq(s, j + 1, k - 1)),
                        MarkupFrom(s, k + 1))

FormatterParse(s) == MarkupFrom(s, 1)

(***************************************************************************)
(* The values of eval_math: int, float, str and Ellipsis. A float is the   *)
(* fraction n/d it stands for, in lowest terms; negz tells -0.0 from 0.0.  *)
(***************************************************************************)
IntValue(n) == [t |-> "int", v |-> n]

StrValue(s) == [t |-> "str", v |-> s]

EllipsisValue == [t |-> "Ellipsis", v |-> 0]

\* a bool is an int: True is 1 and False is 0
BoolValue(b) == [t |-> "bool", v |-> IF b THEN 1 ELSE 0]

\* a list of ints
RangeValue(elements) == [t |-> "list", v |-> elements]

NoneValue == [t |-> "None", v |-> 0]

TrueName == <<"T", "r", "u", "e">>

FalseName == <<"F", "a", "l", "s", "e">>

NoneName == <<"N", "o", "n", "e">>

Abs(n) == IF n < 0 THEN -n ELSE n

RECURSIVE Gcd(_, _)
Gcd(a, b) == IF b = 0 THEN a ELSE Gcd(b, a % b)

FloatValue(n, d, negz) ==
    LET g == Gcd(Abs(n), d) IN
    [t |-> "float", v |-> [n |-> n \div g, d |-> d \div g, negz |-> n = 0 /\ negz]]

RECURSIVE Pow10(_)
Pow10(k) == IF k = 0 THEN 1 ELSE 10 * Pow10(k - 1)

\* int(digits)
RECURSIVE DigitsVal(_)
DigitsVal(digits) ==
    IF digits = <<>> THEN 0
    ELSE 10 * DigitsVal(Pop(digits)) + DigitVal(digits[Len(digits)])

(***************************************************************************)
(* ast.parse(s, mode='eval'): the tokenizer                                *)
(***************************************************************************)
NumberToken(value) == [k |-> "NUMBER", v |-> value]

NameToken(id) == [k |-> "NAME", v |-> id]

OpToken(op) == [k |-> "OP", v |-> op]

Tokens(toks) == [ok |-> TRUE, toks |-> toks]

TokenError == [ok |-> FALSE, toks |-> <<>>]

After(tok, rest) == IF rest.ok THEN Tokens(<<tok>> \o rest.toks) ELSE TokenError

\* the end of the run of characters of chars that starts at position i of s
RECURSIVE RunEnd(_, _, _)
RunEnd(s, i, chars) ==
    IF i <= Len(s) /\ s[i] \in chars THEN RunEnd(s, i + 1, chars) ELSE i - 1

Digits == Range(DigitChars)

WordChars == Letters \cup EllipsisLetters \cup BoolLetters \cup KeywordLetters \cup Digits

IsWordChar(ch) == ch \in WordChars

\* verify_end_of_number: a number may be followed at once by one of the
\* keywords in, and, or
NumberEnds(s, e) ==
    \/ e = Len(s)
    \/ ~IsWordChar(s[e + 1])
    \/ (s[e + 1] = "i" /\ e + 2 <= Len(s) /\ s[e + 2] = "n")
    \/ (s[e + 1] = "a" /\ e + 3 <= Len(s) /\ s[e + 2] = "n" /\ s[e + 3] = "d")
    \/ (s[e + 1] = "o" /\ e + 2 <= Len(s) /\ s[e + 2] = "r")

\* a decimal integer with a leading zero is made of zeros
LeadingZeros(digits) ==
    Len(digits) > 1 /\ digits[1] = "0" /\ \E i \in 1..Len(digits) : digits[i] # "0"

RECURSIVE TokensFrom(_, _)
TokensFrom(s, i) ==
    IF i > Len(s) THEN Tokens(<<>>)
    ELSE IF s[i] = " " THEN TokensFrom(s, i + 1)
    ELSE IF IsDigit(s[i]) \/ (s[i] = "." /\ i < Len(s) /\ IsDigit(s[i + 1]))
    THEN LET j == RunEnd(s, i, Digits)
             whole == SubSeq(s, i, j)
         IN  IF j < Len(s) /\ s[j + 1] = "."
             THEN LET e == RunEnd(s, j + 2, Digits)
                      frac == SubSeq(s, j + 2, e)
                  IN  IF NumberEnds(s, e)
                      THEN After(NumberToken(FloatValue(
                                     DigitsVal(whole) * Pow10(Len(frac)) + DigitsVal(frac),
                                     Pow10(Len(frac)), FALSE)),
                                 TokensFrom(s, e + 1))
                      ELSE TokenError
             ELSE IF NumberEnds(s, j) /\ ~LeadingZeros(whole)
                  THEN After(NumberToken(IntValue(DigitsVal(whole))), TokensFrom(s, j + 1))
                  ELSE TokenError
    ELSE IF IsLetter(s[i])
    THEN LET j == RunEnd(s, i, WordChars)
             word == SubSeq(s, i, j)
         IN  After(IF word = <<"i", "n">> THEN OpToken("in")
                   ELSE IF word = <<"a", "n", "d">> THEN OpToken("and")
                   ELSE IF word = <<"o", "r">> THEN OpToken("or")
                   ELSE NameToken(word),
                   TokensFrom(s, j + 1))
    ELSE IF s[i] = "." /\ i + 2 <= Len(s) /\ s[i + 1] = "." /\ s[i + 2] = "."
    THEN After(OpToken("..."), TokensFrom(s, i + 3))
    ELSE IF s[i] = "/" /\ i < Len(s) /\ s[i + 1] = "/"
    THEN After(OpToken("//"), TokensFrom(s, i + 2))
    ELSE IF s[i] \in {"<", ">"} /\ i < Len(s) /\ s[i + 1] = s[i]
    THEN After(OpToken(IF s[i] = "<" THEN "<<" ELSE ">>"), TokensFrom(s, i + 2))
    ELSE IF s[i] \in {".", "/", "+", "-", "{", "}", "<", ">", "(", ")", ","}
    THEN After(OpToken(s[i]), TokensFrom(s, i + 1))
    ELSE TokenError

\* a line that starts with a blank is an unexpected indent
Tokenize(s) == IF s # <<>> /\ s[1] = " " THEN TokenError ELSE TokensFrom(s, 1)

(***************************************************************************)
(* ast.parse(s, mode='eval'): the grammar of the tokens above              *)
(*   disjunction: conjunction ('or' conjunction)*                          *)
(*   conjunction: comparison ('and' comparison)*                           *)
(*   comparison: shift (('in' | '<' | '>') shift)*                         *)
(*   shift:      sum (('<<' | '>>') sum)*                                  *)
(*   sum:        term (('+' | '-') term)*                                  *)
(*   term:       factor (('/' | '//') factor)*                             *)
(*   factor:     ('+' | '-') factor | primary                              *)
(*   primary:    atom ('.' NAME | '(' [disjunction (',' disjunction)*] ')')* *)
(*   atom:       NAME | NUMBER | '...' | '{' '}' | '{' disjunction '}'     *)
(*               | '(' disjunction ')'                                     *)
(* True and False are keywords: constants, and no name of an attribute.    *)
(* A parse is [ok, node, pos]: the node read and the position after it.    *)
(***************************************************************************)
Node(node, pos) == [ok |-> TRUE, node |-> node, pos |-> pos]

NoParse == [ok |-> FALSE, node |-> <<>>, pos |-> 0]

IsOp(toks, i, ops) == i <= Len(toks) /\ toks[i].k = "OP" /\ toks[i].v \in ops

Constant(value) == [node |-> "Constant", value |-> value]

Name(id) == [node |-> "Name", id |-> id]

Attribute(value, attr) == [node |-> "Attribute", value |-> value, attr |-> attr]

BinOp(left, op, right) == [node |-> "BinOp", left |-> left, op |-> op, right |-> right]

UnaryOp(op, operand) == [node |-> "UnaryOp", op |-> op, operand |-> operand]

Compare(left, ops, comparators) ==
    [node |-> "Compare", left |-> left, ops |-> ops, comparators |-> comparators]

BoolOp(op, values) == [node |-> "BoolOp", op |-> op, values |-> values]

CallNode(func, args) == [node |-> "Call", func |-> func, args |-> args]

DictNode == [node |-> "Dict"]

SetNode(elt) == [node |-> "Set", elts |-> <<elt>>]

BinOpOf(text) == CASE text = "+" -> "Add"
                   [] text = "-" -> "Sub"
                   [] text = "/" -> "Div"
                   [] text = "//" -> "FloorDiv"
                   [] text = "<<" -> "LShift"
                   [] text = ">>" -> "RShift"

CompareOpOf(text) == CASE text = "in" -> "In"
                       [] text = "<" -> "Lt"
                       [] text = ">" -> "Gt"

UnaryOpOf(text) == IF text = "-" THEN "USub" ELSE "UAdd"

RECURSIVE ParseDisjunction(_, _), BoolRest(_, _, _, _), ParseConjunction(_, _),
          Arguments(_, _, _), ArgumentsRest(_, _, _),
          ParseComparison(_, _), ComparisonRest(_, _, _, _), ParseShift(_, _),
          ShiftRest(_, _), ParseSum(_, _), SumRest(_, _), ParseTerm(_, _), TermRest(_, _), ParseFactor(_, _),
          ParsePrimary(_, _), PrimaryRest(_, _), ParseAtom(_, _)

\* '{' disjunction '}'
Braced(toks, elt) ==
    IF elt.ok /\ IsOp(toks, elt.pos, {"}"})
    THEN Node(SetNode(elt.node), elt.pos + 1)
    ELSE NoParse

\* '(' disjunction ')'
Grouped(toks, body) ==
    IF body.ok /\ IsOp(toks, body.pos, {")"}) THEN Node(body.node, body.pos + 1)
    ELSE NoParse

\* the arguments of a call from position i on, args being those read so far:
\* the parse of the list of their nodes, after the closing parenthesis
Arguments(toks, i, args) ==
    IF IsOp(toks, i, {")"}) THEN Node(args, i + 1)
    ELSE ArgumentsRest(toks, args, ParseDisjunction(toks, i))

ArgumentsRest(toks, args, arg) ==
    IF ~arg.ok THEN NoParse
    ELSE IF IsOp(toks, arg.pos, {","})
    THEN Arguments(toks, arg.pos + 1, Append(args, arg.node))
    ELSE IF IsOp(toks, arg.pos, {")"}) THEN Node(Append(args, arg.node), arg.pos + 1)
    ELSE NoParse

\* func '(' arguments ')'
Called(func, args) ==
    IF args.ok THEN Node(CallNode(func.node, args.node), args.pos) ELSE NoParse

ParseAtom(toks, i) ==
    IF i > Len(toks) THEN NoParse
    ELSE IF toks[i].k = "NUMBER" THEN Node(Constant(toks[i].v), i + 1)
    ELSE IF toks[i].k = "NAME"
    THEN IF toks[i].v \in {TrueName, FalseName}
         THEN Node(Constant(BoolValue(toks[i].v = TrueName)), i + 1)
         ELSE IF toks[i].v = NoneName THEN Node(Constant(NoneValue), i + 1)
         ELSE Node(Name(toks[i].v), i + 1)
    ELSE IF toks[i].v = "..." THEN Node(Constant(EllipsisValue), i + 1)
    ELSE IF toks[i].v = "{"
    THEN IF IsOp(toks, i + 1, {"}"}) THEN Node(DictNode, i + 2)
         ELSE Braced(toks, ParseDisjunction(toks, i + 1))
    ELSE IF toks[i].v = "(" THEN Grouped(toks, ParseDisjunction(toks, i + 1))
    ELSE NoParse

\* value is the parse of the primary read so far
PrimaryRest(toks, value) ==
    IF ~value.ok THEN NoParse
    ELSE IF IsOp(toks, value.pos, {"."})
    THEN IF /\ value.pos + 1 <= Len(toks)
            /\ toks[value.pos + 1].k = "NAME"
            /\ toks[value.pos + 1].v \notin {TrueName, FalseName, NoneName}
         THEN PrimaryRest(toks, Node(Attribute(value.node, toks[value.pos + 1].v),
                                     value.pos + 2))
         ELSE NoParse
    ELSE IF IsOp(toks, value.pos, {"("})
    THEN PrimaryRest(toks, Called(value, Arguments(toks, value.pos + 1, <<>>)))
    ELSE value

ParsePrimary(toks, i) == PrimaryRest(toks, ParseAtom(toks, i))

\* ('+' | '-') factor
Signed(text, operand) ==
    IF operand.ok THEN Node(UnaryOp(UnaryOpOf(text), operand.node), operand.pos)
    ELSE NoParse

ParseFactor(toks, i) ==
    IF IsOp(toks, i, {"+", "-"}) THEN Signed(toks[i].v, ParseFactor(toks, i + 1))
    ELSE ParsePrimary(toks, i)

\* left operator right, left being the parse of what is read so far
Joined(left, text, right) ==
    IF right.ok THEN Node(BinOp(left.node, BinOpOf(text), right.node), right.pos)
    ELSE NoParse

TermRest(toks, left) ==
    IF ~left.ok THEN NoParse
    ELSE IF IsOp(toks, left.pos, {"/", "//"})
    THEN TermRest(toks, Joined(left, toks[left.pos].v, ParseFactor(toks, left.pos + 1)))
    ELSE left

ParseTerm(toks, i) == TermRest(toks, ParseFactor(toks, i))

SumRest(toks, left) ==
    IF ~left.ok THEN NoParse
    ELSE IF IsOp(toks, left.pos, {"+", "-"})
    THEN SumRest(toks, Joined(left, toks[left.pos].v, ParseTerm(toks, left.pos + 1)))
    ELSE left

ParseSum(toks, i) == SumRest(toks, ParseTerm(toks, i))

ShiftRest(toks, left) ==
    IF ~left.ok THEN NoParse
    ELSE IF IsOp(toks, left.pos, {"<<", ">>"})
    THEN ShiftRest(toks, Joined(left, toks[left.pos].v, ParseSum(toks, left.pos + 1)))
    ELSE left

ParseShift(toks, i) == ShiftRest(toks, ParseSum(toks, i))

\* operands are the nodes read before right, the parse of the last operand,
\* and ops the operators read after each of them
ComparisonRest(toks, operands, ops, right) ==
    IF ~right.ok THEN NoParse
    ELSE IF IsOp(toks, right.pos, {"in", "<", ">"})
    THEN ComparisonRest(toks, Append(operands, right.node),
                        Append(ops, CompareOpOf(toks[right.pos].v)),
                        ParseShift(toks, right.pos + 1))
    ELSE IF operands = <<>> THEN right
    ELSE Node(Compare(Head(operands), ops, Tail(Append(operands, right.node))),
              right.pos)

ParseComparison(toks, i) == ComparisonRest(toks, <<>>, <<>>, ParseShift(toks, i))

\* values are the nodes read before right, the parse of the last operand of
\* the operator word ("and" or "or"), whose operands are read at the level below
BoolRest(toks, word, values, right) ==
    IF ~right.ok THEN NoParse
    ELSE IF IsOp(toks, right.pos, {word})
    THEN BoolRest(toks, word, Append(values, right.node),
                  IF word = "or" THEN ParseConjunction(toks, right.pos + 1)
                  ELSE ParseComparison(toks, right.pos + 1))
    ELSE IF values = <<>> THEN right
    ELSE Node(BoolOp(IF word = "or" THEN "Or" ELSE "And", Append(values, right.node)),
              right.pos)

ParseConjunction(toks, i) == BoolRest(toks, "and", <<>>, ParseComparison(toks, i))

ParseDisjunction(toks, i) == BoolRest(toks, "or", <<>>, ParseConjunction(toks, i))

\* the parse is that of all the tokens
Whole(toks, body) == IF body.ok /\ body.pos = Len(toks) + 1 THEN body ELSE NoParse

ParseTokens(tokens) ==
    IF ~tokens.ok THEN NoParse ELSE Whole(tokens.toks, ParseDisjunction(tokens.toks, 1))

\* ast.parse(s, mode='eval').body, or no parse: SyntaxError
ast_parse(s) == ParseTokens(Tokenize(s))

(***************************************************************************)
(* Outcomes: a call returns a value or raises an exception                 *)
(***************************************************************************)
Ok(val) == [kind |-> "ok", val |-> val]

Raise(err) == [kind |-> "raise", val |-> err]

(***************************************************************************)
(* supported_math_operators on int and float. A float operand must be a    *)
(* binary fraction for the operation to be exact; a result the model       *)
(* cannot write is the outcome Unmodelled.                                 *)
(***************************************************************************)
MaxFraction == 8

Unmodelled == Raise("Unmodelled")

RECURSIVE IsPow2(_)
IsPow2(d) == d = 1 \/ (d % 2 = 0 /\ IsPow2(d \div 2))

ToFloat(x) == IF x.t = "int" THEN [n |-> x.v, d |-> 1, negz |-> FALSE] ELSE x.v

\* the number a bool is in arithmetic
Number(x) == IF x.t = "bool" THEN IntValue(x.v) ELSE x

IsExact(x) == x.t = "int" \/ IsPow2(x.v.d)

IsNegZero(f) == f.n = 0 /\ f.negz

IsNegative(f) == f.n < 0 \/ IsNegZero(f)

\* operator.neg
neg(x) ==
    IF x.t = "int" THEN IntValue(-x.v)
    ELSE FloatValue(-x.v.n, x.v.d, ~x.v.negz)

\* operator.add
add(x, y) ==
    IF x.t = "int" /\ y.t = "int" THEN Ok(IntValue(x.v + y.v))
    ELSE IF ~IsExact(x) \/ ~IsExact(y) THEN Unmodelled
    ELSE LET a == ToFloat(x)
             b == ToFloat(y)
         IN  Ok(FloatValue(a.n * b.d + b.n * a.d, a.d * b.d, IsNegZero(a) /\ IsNegZero(b)))

\* operator.sub
sub(x, y) ==
    IF x.t = "int" /\ y.t = "int" THEN Ok(IntValue(x.v - y.v))
    ELSE add(x, neg([t |-> "float", v |-> ToFloat(y)]))

\* operator.truediv
truediv(x, y) ==
    LET a == ToFloat(x)
        b == ToFloat(y)
        sign == IF b.n < 0 THEN -1 ELSE 1
    IN  IF b.n = 0 THEN Raise("ZeroDivisionError")
        ELSE IF ~IsExact(x) \/ ~IsExact(y) THEN Unmodelled
        ELSE Ok(FloatValue(sign * a.n * b.d, a.d * sign * b.n,
                           IsNegative(a) # IsNegative(b)))

\* the number of decimals of the fraction of denominator d, or -1
RECURSIVE Decimals(_, _)
Decimals(d, k) ==
    IF k > MaxFraction THEN -1
    ELSE IF Pow10(k) % d = 0 THEN k
    ELSE Decimals(d, k + 1)

RECURSIVE StripZeros(_)
StripZeros(digits) ==
    IF Len(digits) > 1 /\ digits[Len(digits)] = "0" THEN StripZeros(Pop(digits))
    ELSE digits

RECURSIVE PadZeros(_, _)
PadZeros(digits, k) == IF Len(digits) < k THEN PadZeros(<<"0">> \o digits, k) ELSE digits

\* repr(float)
FloatRepr(f) ==
    LET k == Decimals(f.d, 0)
        scaled == (Abs(f.n) * Pow10(k)) \div f.d
        whole == scaled \div Pow10(k)
        part == scaled % Pow10(k)
    IN  IF k < 0 \/ (f.n # 0 /\ Abs(f.n) * 10000 < f.d) THEN Unmodelled
        ELSE Ok((IF IsNegative(f) THEN <<"-">> ELSE <<>>)
                \o NatStr(whole) \o <<".">>
                \o (IF k = 0 THEN <<"0">> ELSE StripZeros(PadZeros(NatStr(part), k))))

\* ', '.join of the ints of a list
RECURSIVE Joined_ints(_)
Joined_ints(elements) ==
    IF elements = <<>> THEN <<>>
    ELSE IF Len(elements) = 1 THEN IntStr(elements[1])
    ELSE IntStr(elements[1]) \o <<",", " ">> \o Joined_ints(Tail(elements))

\* str(value)
str(x) ==
    CASE x.t = "int" -> Ok(IntStr(x.v))
      [] x.t = "float" -> FloatRepr(x.v)
      [] x.t = "str" -> Ok(x.v)
      [] x.t = "Ellipsis" -> Ok(<<"E", "l", "l", "i", "p", "s", "i", "s">>)
      [] x.t = "bool" -> Ok(IF x.v = 1 THEN TrueName ELSE FalseName)
      [] x.t = "None" -> Ok(NoneName)
      [] x.t = "list" -> Ok(<<"[">> \o Joined_ints(x.v) \o <<"]">>)

\* the characters of the values in the order of their code points
CodePoints == <<".", "0", "1", "2", "3", "4", "5", "6", "7", "8", "9", "E", "F", "N", "T",
                "a", "c", "d", "e", "g", "i", "l", "n", "o", "p", "r", "s", "u", "v">>

ord(ch) == CHOOSE i \in 1..Len(CodePoints) : CodePoints[i] = ch

\* s < t of two strings
RECURSIVE StrLess(_, _)
StrLess(s, t) ==
    IF t = <<>> THEN FALSE
    ELSE IF s = <<>> THEN TRUE
    ELSE IF Head(s) # Head(t) THEN ord(Head(s)) < ord(Head(t))
    ELSE StrLess(Tail(s), Tail(t))

\* a < b of two numbers
NumLess(a, b) == a.n * b.d < b.n * a.d

\* operator.lt: numbers with numbers and strings with strings, or TypeError
lt(x, y) ==
    IF x.t = "list" /\ y.t = "list" THEN Unmodelled
    ELSE IF x.t = "str" /\ y.t = "str" THEN Ok(BoolValue(StrLess(x.v, y.v)))
    ELSE IF {x.t, y.t} \subseteq {"int", "float", "bool"}
    THEN Ok(BoolValue(NumLess(ToFloat(Number(x)), ToFloat(Number(y)))))
    ELSE Raise("TypeError")

\* operator.gt
gt(x, y) == lt(y, x)

\* a & b and a | b of two ints, in two's complement
RECURSIVE BitAnd(_, _), BitOr(_, _)
BitAnd(a, b) ==
    IF a = 0 \/ b = 0 THEN 0
    ELSE IF a = -1 THEN b
    ELSE IF b = -1 THEN a
    ELSE 2 * BitAnd(a \div 2, b \div 2) + (a % 2) * (b % 2)

BitOr(a, b) ==
    IF a = -1 \/ b = -1 THEN -1
    ELSE IF a = 0 THEN b
    ELSE IF b = 0 THEN a
    ELSE 2 * BitOr(a \div 2, b \div 2) + (IF a % 2 = 1 \/ b % 2 = 1 THEN 1 ELSE 0)

\* operator.and_: x & y of bools and ints, or TypeError
and_(x, y) ==
    IF x.t = "bool" /\ y.t = "bool" THEN Ok(BoolValue(x.v = 1 /\ y.v = 1))
    ELSE IF {x.t, y.t} \subseteq {"int", "bool"} THEN Ok(IntValue(BitAnd(x.v, y.v)))
    ELSE Raise("TypeError")

\* operator.or_: x | y of bools and ints, or TypeError
or_(x, y) ==
    IF x.t = "bool" /\ y.t = "bool" THEN Ok(BoolValue(x.v = 1 \/ y.v = 1))
    ELSE IF {x.t, y.t} \subseteq {"int", "bool"} THEN Ok(IntValue(BitOr(x.v, y.v)))
    ELSE Raise("TypeError")

\* the ints from start to stop by step
RECURSIVE RangeFrom(_, _, _)
RangeFrom(start, stop, step) ==
    IF (step > 0 /\ start >= stop) \/ (step < 0 /\ start <= stop) THEN <<>>
    ELSE <<start>> \o RangeFrom(start + step, stop, step)

\* list(range(*args))
range(args) ==
    IF Len(args) \notin 1..3 THEN Raise("TypeError")
    ELSE IF \E i \in 1..Len(args) : args[i].t \notin {"int", "bool"} THEN Raise("TypeError")
    ELSE IF Len(args) = 1 THEN Ok(RangeValue(RangeFrom(0, args[1].v, 1)))
    ELSE IF Len(args) = 2 THEN Ok(RangeValue(RangeFrom(args[1].v, args[2].v, 1)))
    ELSE IF args[3].v = 0 THEN Raise("ValueError")
    ELSE Ok(RangeValue(RangeFrom(args[1].v, args[2].v, args[3].v)))

(***************************************************************************)
(* Expander: eval_math, _partial_expand and expand_var                     *)
(*                                                                         *)
(* es gives the variables of every experiment of the experiment set by its *)
(* namespace, exp is the namespace of the experiment of this expander, and *)
(* stack is the set of the calls that have not returned yet: a call that   *)
(* is made again with the same arguments before it returned never returns, *)
(* and python raises RecursionError.                                       *)
(***************************************************************************)
MaxDepth == 12

IsRaise(outcome) == outcome.kind = "raise"

\* line 242
expansion_str(in_str) == <<"{">> \o in_str \o <<"}">>

Frame(call, exp, in_str) == <<call, exp, in_str>>

Recursion(stack, frame) == frame \in stack \/ Cardinality(stack) >= MaxDepth

\* lines 247-259: the keywords of in_str, and the ValueError that ends them
FieldNames(named) == [i \in 1..Len(named) |-> named[i].field_name]

IsKeyword(tup) == tup.is_field /\ tup.field_name # <<>>

KeywordsOf(parsed) ==
    [keywords |-> FieldNames(SelectSeq(parsed.tuples, IsKeyword)), err |-> parsed.err]

all_keywords(in_str) == KeywordsOf(FormatterParse(in_str))

\* lines 261-272: the answer comes with the first keyword
FirstKeyword(found) ==
    IF found.keywords # <<>> THEN Ok(FALSE)
    ELSE IF found.err # "" THEN Raise(found.err)
    ELSE Ok(TRUE)

fully_expanded(in_str) == FirstKeyword(all_keywords(in_str))

\* lines 398-408
AttributeOf(base, attr) ==
    IF IsRaise(base) THEN base ELSE Ok(StrValue(base.val.v \o <<".">> \o attr))

RECURSIVE ast_attr(_)
ast_attr(node) ==
    AttributeOf(IF node.value.node = "Attribute" THEN ast_attr(node.value)
                ELSE IF node.value.node = "Name" THEN Ok(StrValue(node.value.id))
                ELSE Raise("RambleSyntaxError"),
                node.attr)

\* the except clauses of the operators: TypeError is SyntaxError
InTry(result) ==
    IF IsRaise(result) /\ result.val = "TypeError" THEN Raise("SyntaxError") ELSE result

\* lines 491-506: the operands are evaluated, the left one first; of the
\* operators the parser above reads, //, << and >> are no keys of
\* supported_math_operators
BinaryOp(op, left_eval, right_eval) ==
    IF IsRaise(left_eval) THEN InTry(left_eval)
    ELSE IF IsRaise(right_eval) THEN InTry(right_eval)
    ELSE IF op \notin {"Add", "Sub", "Div"} THEN Raise("SyntaxError")
    ELSE IF left_eval.val.t = "str" \/ right_eval.val.t = "str" THEN Raise("SyntaxError")
    ELSE IF left_eval.val.t = "list" /\ right_eval.val.t = "list" /\ op = "Add"
         THEN Ok(RangeValue(left_eval.val.v \o right_eval.val.v))
    ELSE IF {left_eval.val.t, right_eval.val.t} \cap {"Ellipsis", "None", "list"} # {}
         THEN Raise("SyntaxError")
    ELSE CASE op = "Add" -> add(Number(left_eval.val), Number(right_eval.val))
           [] op = "Sub" -> sub(Number(left_eval.val), Number(right_eval.val))
           [] op = "Div" -> truediv(Number(left_eval.val), Number(right_eval.val))

\* lines 508-522
UnaryOperator(op, operand) ==
    IF IsRaise(operand) THEN InTry(operand)
    ELSE IF operand.val.t = "str" THEN Raise("SyntaxError")
    ELSE IF op # "USub" THEN Raise("SyntaxError")
    ELSE IF operand.val.t \in {"Ellipsis", "None", "list"} THEN Raise("SyntaxError")
    ELSE Ok(neg(Number(operand.val)))

\* lines 453-469: TypeError is SyntaxError
Compared(result) == InTry(result)

\* lines 440-469 on a comparison that is not one "in": In is no key of
\* supported_math_operators, and the slice of a zip is a TypeError
Comparison(ops, cur_left, cur_right) ==
    IF IsRaise(cur_left) THEN Compared(cur_left)
    ELSE IF ops[1] = "In" THEN Raise("SyntaxError")
    ELSE IF IsRaise(cur_right) THEN Compared(cur_right)
    ELSE IF Len(ops) > 1 THEN Raise("SyntaxError")
    ELSE Compared(IF ops[1] = "Lt" THEN lt(cur_left.val, cur_right.val)
                  ELSE gt(cur_left.val, cur_right.val))

\* lines 423-433: result = op(result, self.eval_math(value))
BoolOperator(op, result, value) ==
    IF IsRaise(value) THEN value
    ELSE IF op = "And" THEN and_(result.val, value.val)
    ELSE or_(result.val, value.val)

\* lines 410-421: node.func.id is read after the arguments are evaluated, and
\* a function that is not range gives None
FunctionCall(func, args) ==
    IF IsRaise(args) THEN args
    ELSE IF func.node # "Name" THEN Raise("AttributeError")
    ELSE IF func.id = <<"r", "a", "n", "g", "e">> THEN range(args.val)
    ELSE Ok(NoneValue)

\* lines 484-488: None and the empty string are no value
Found(val) ==
    IF IsRaise(val) THEN val
    ELSE IF val.val.t = "None" \/ val.val.v = <<>> THEN Raise("RambleSyntaxError")
    ELSE val

\* ExperimentSet.get_var_from_experiment gives what expand_var returns
Expansion(expanded) ==
    IF IsRaise(expanded) THEN expanded ELSE Ok(StrValue(expanded.val))

\* lines 225-232 and 302-309: MathEvaluationError and SyntaxError are caught
Caught(val, evaluated) ==
    IF IsRaise(evaluated) /\ evaluated.val \in {"MathEvaluationError", "SyntaxError"}
    THEN Ok(StrValue(val))
    ELSE evaluated

RECURSIVE eval_math(_, _, _, _), eval_comp_in(_, _, _, _), InExperiment(_, _, _, _),
          eval_bool_op(_, _, _, _, _, _), EvalArgs(_, _, _, _, _), ArgThen(_, _, _, _, _, _),
          get_var_from_experiment(_, _, _, _), try_eval(_, _, _, _),
          Evaluate(_, _, _, _, _), expand_var(_, _, _, _, _),
          ExpandFully(_, _, _, _, _), EvaluateFull(_, _, _, _, _, _),
          partial_expand(_, _, _, _, _), ExpandFields(_, _, _, _, _),
          SetField(_, _, _, _, _, _), EvalFields(_, _, _, _, _, _, _),
          EvalField(_, _, _, _, _, _, _, _), EvalFull(_, _, _, _, _, _, _, _),
          EvalPassthrough(_, _, _, _, _, _, _, _), ExpandKeywords(_, _, _, _, _, _),
          EvalKeywords(_, _, _, _, _, _, _)

\* lines 350-378, with _eval_binary_ops, _eval_unary_ops and _eval_comparisons
eval_math(es, exp, node, stack) ==
    CASE node.node = "Constant" -> Ok(node.value)
      [] node.node = "Name" -> Ok(StrValue(node.id))
      [] node.node = "Attribute" -> ast_attr(node)
      [] node.node = "Compare" ->
            IF Len(node.ops) = 1 /\ node.ops[1] = "In"
            THEN eval_comp_in(es, exp, node, stack)
            ELSE Comparison(node.ops, eval_math(es, exp, node.left, stack),
                            eval_math(es, exp, node.comparators[1], stack))
      [] node.node = "BinOp" ->
            BinaryOp(node.op, eval_math(es, exp, node.left, stack),
                     eval_math(es, exp, node.right, stack))
      [] node.node = "UnaryOp" ->
            UnaryOperator(node.op, eval_math(es, exp, node.operand, stack))
      [] node.node = "BoolOp" ->
            InTry(eval_bool_op(es, exp, node.op, Tail(node.values),
                               eval_math(es, exp, Head(node.values), stack), stack))
      [] node.node = "Call" ->
            FunctionCall(node.func, EvalArgs(es, exp, node.args, <<>>, stack))
      [] OTHER -> Raise("MathEvaluationError")

\* lines 427-431: the operator is applied to the result so far and to every
\* value after the first, each of which is evaluated
eval_bool_op(es, exp, op, values, result, stack) ==
    IF IsRaise(result) \/ values = <<>> THEN result
    ELSE eval_bool_op(es, exp, op, Tail(values),
                      BoolOperator(op, result, eval_math(es, exp, Head(values), stack)),
                      stack)

\* lines 413-416: the arguments are evaluated from left to right
EvalArgs(es, exp, args, evaluated, stack) ==
    IF args = <<>> THEN Ok(evaluated)
    ELSE ArgThen(es, exp, Tail(args), evaluated, eval_math(es, exp, Head(args), stack),
                 stack)

ArgThen(es, exp, rest, evaluated, value, stack) ==
    IF IsRaise(value) THEN value
    ELSE EvalArgs(es, exp, rest, Append(evaluated, value.val), stack)

\* lines 471-489
eval_comp_in(es, exp, node, stack) ==
    IF node.left.node = "Name" /\ node.comparators[1].node = "Attribute"
    THEN InExperiment(es, eval_math(es, exp, node.comparators[1], stack),
                      node.left.id, stack)
    ELSE Raise("RambleSyntaxError")

\* lines 481-488: the variable var_name of the experiment namespace
InExperiment(es, namespace, var_name, stack) ==
    IF IsRaise(namespace) THEN namespace
    ELSE Found(get_var_from_experiment(es, namespace.val.v, expansion_str(var_name),
                                       stack))

get_var_from_experiment(es, experiment, variable, stack) ==
    IF experiment \notin DOMAIN es THEN Ok(NoneValue)
    ELSE Expansion(expand_var(es, experiment, variable, TRUE, stack))

\* lines 225-232 and 302-309: the value of the string, or the string itself
\* when it does not parse or the evaluation raises an error that is caught
try_eval(es, exp, val, stack) == Evaluate(es, exp, val, ast_parse(val), stack)

\* the text of a list is not parsed again by the model
Bracketed(val) == \E i \in 1..Len(val) : val[i] \in {"[", "]"}

Evaluate(es, exp, val, math_ast, stack) ==
    IF Bracketed(val) THEN Unmodelled
    ELSE IF ~math_ast.ok THEN Ok(StrValue(val))
    ELSE Caught(val, eval_math(es, exp, math_ast.node, stack))

\* str.isdigit()
isdigit(s) == s # <<>> /\ \A i \in 1..Len(s) : IsDigit(s[i])

\* Formatter.get_field and format_field: the text that replaces the field
\* field_name, args being a list of args_len strings '{}'
FormatField(field_name, args_len, exp_dict) ==
    LET dot == FindChar(field_name, 1, {"."})
        first == IF dot = 0 THEN field_name ELSE SubSeq(field_name, 1, dot - 1)
    IN  IF field_name = <<>> THEN Ok(<<"{", "}">>)
        ELSE IF isdigit(first) /\ DigitsVal(first) >= args_len THEN Raise("IndexError")
        ELSE IF dot # 0
             THEN IF dot = Len(field_name) \/ field_name[dot + 1] = "."
                  THEN Raise("ValueError")        \* Empty attribute in format string
                  ELSE Raise("AttributeError")
        ELSE IF isdigit(first) THEN Ok(<<"{", "}">>)
        ELSE IF DictHas(exp_dict, first) THEN str(DictGet(exp_dict, first))
        ELSE Ok(expansion_str(first))             \* ExpansionDict.__missing__

\* the switch between automatic and manual field numbering
Switches(field_name, auto_arg_index) ==
    IF field_name = <<>> THEN auto_arg_index = -1
    ELSE isdigit(field_name) /\ auto_arg_index > 0

NextIndex(field_name, auto_arg_index) ==
    IF field_name = <<>> THEN auto_arg_index + 1
    ELSE IF isdigit(field_name) THEN -1
    ELSE auto_arg_index

\* the literal text, the text of the field and the rest of the result
Written(literal_text, field, rest) ==
    IF IsRaise(field) THEN field
    ELSE IF IsRaise(rest) THEN rest
    ELSE Ok(literal_text \o field.val \o rest.val)

\* Formatter.vformat; auto_arg_index is -1 once it is False
RECURSIVE vformat(_, _, _, _)
vformat(tuples, auto_arg_index, args_len, exp_dict) ==
    IF tuples = <<>> THEN Ok(<<>>)
    ELSE IF /\ Head(tuples).is_field
            /\ Switches(Head(tuples).field_name, auto_arg_index)
    THEN Raise("ValueError")
    ELSE Written(Head(tuples).literal_text,
                 IF Head(tuples).is_field
                 THEN FormatField(Head(tuples).field_name, args_len, exp_dict)
                 ELSE Ok(<<>>),
                 vformat(Tail(tuples),
                         IF Head(tuples).is_field
                         THEN NextIndex(Head(tuples).field_name, auto_arg_index)
                         ELSE auto_arg_index,
                         args_len, exp_dict))

\* lines 290-297: the definitions of the keywords of in_str are expanded
ExpandFields(es, exp, tuples, exp_dict, stack) ==
    IF tuples = <<>> THEN Ok(exp_dict)
    ELSE SetField(es, exp, tuples, exp_dict,
                  IF IsKeyword(Head(tuples)) /\ Head(tuples).field_name \in DOMAIN es[exp]
                  THEN partial_expand(es, exp, es[exp][Head(tuples).field_name], TRUE,
                                      stack)
                  ELSE Ok(<<>>),
                  stack)

\* line 294: exp_dict[kw] is the expansion val of the definition of kw
SetField(es, exp, tuples, exp_dict, val, stack) ==
    IF IsRaise(val) THEN val
    ELSE ExpandFields(es, exp, Tail(tuples),
                      IF IsKeyword(Head(tuples)) /\ Head(tuples).field_name \in DOMAIN es[exp]
                      THEN DictSet(exp_dict, Head(tuples).field_name, StrValue(val.val))
                      ELSE exp_dict,
                      stack)

RECURSIVE UpdateDict(_, _)
UpdateDict(d, keywords) ==
    IF keywords = <<>> THEN d
    ELSE UpdateDict(DictSet(d, Head(keywords), StrValue(expansion_str(Head(keywords)))),
                    Tail(keywords))

\* lines 299-315: the expanded definitions are evaluated; the result is the
\* pair of exp_dict and of the keywords of passthrough_vars
EvalFields(es, exp, keys, exp_dict, passthrough_vars, allow_passthrough, stack) ==
    IF keys = <<>> THEN Ok(<<exp_dict, passthrough_vars>>)
    ELSE EvalField(es, exp, keys, exp_dict, passthrough_vars, allow_passthrough, stack,
                   fully_expanded(DictGet(exp_dict, Head(keys)).v))

\* lines 301-314, full being what _fully_expanded gives of the value
EvalField(es, exp, keys, exp_dict, passthrough_vars, allow_passthrough, stack, full) ==
    IF IsRaise(full) THEN full
    ELSE IF full.val
    THEN EvalFull(es, exp, keys, exp_dict, passthrough_vars, allow_passthrough, stack,
                  try_eval(es, exp, DictGet(exp_dict, Head(keys)).v, stack))
    ELSE EvalPassthrough(es, exp, keys, exp_dict, passthrough_vars, allow_passthrough,
                         stack,
                         IF allow_passthrough
                         THEN all_keywords(DictGet(exp_dict, Head(keys)).v)
                         ELSE [keywords |-> <<>>, err |-> ""])

\* lines 303-305: exp_dict[kw] is the value evaluated
EvalFull(es, exp, keys, exp_dict, passthrough_vars, allow_passthrough, stack, evaluated) ==
    IF IsRaise(evaluated) THEN evaluated
    ELSE EvalFields(es, exp, Tail(keys), DictSet(exp_dict, Head(keys), evaluated.val),
                    passthrough_vars, allow_passthrough, stack)

\* lines 312-314: the keywords found of the value pass through
EvalPassthrough(es, exp, keys, exp_dict, passthrough_vars, allow_passthrough, stack, found) ==
    IF found.err # "" THEN Raise(found.err)
    ELSE EvalFields(es, exp, Tail(keys), exp_dict, passthrough_vars \o found.keywords,
                    allow_passthrough, stack)

\* lines 317-346: what vformat raises is handled
Formatted(in_str, formatted, allow_passthrough) ==
    IF ~IsRaise(formatted) THEN formatted
    ELSE CASE formatted.val = "IndexError" ->
                  IF allow_passthrough THEN Ok(in_str) ELSE Raise("RambleSyntaxError")
           [] formatted.val = "ValueError" -> Ok(in_str)
           [] formatted.val = "AttributeError" -> Raise("RambleSyntaxError")
           [] OTHER -> formatted

IsPositional(tup) == tup.is_field /\ tup.field_name = <<>>

\* lines 317-319: the string is formatted with the values evaluated
FormatKeywords(in_str, parsed, evaluated, allow_passthrough) ==
    IF IsRaise(evaluated) THEN evaluated
    ELSE Formatted(in_str,
                   vformat(parsed.tuples, 0, Len(SelectSeq(parsed.tuples, IsPositional)),
                           UpdateDict(evaluated.val[1], evaluated.val[2])),
                   allow_passthrough)

\* lines 274-348
partial_expand(es, exp, in_str, allow_passthrough, stack) ==
    IF Recursion(stack, Frame("_partial_expand", exp, in_str)) THEN Raise("RecursionError")
    ELSE ExpandKeywords(es, exp, in_str, FormatterParse(in_str), allow_passthrough,
                        stack \cup {Frame("_partial_expand", exp, in_str)})

\* lines 290-297, parsed being what formatter.parse gives of in_str
ExpandKeywords(es, exp, in_str, parsed, allow_passthrough, stack) ==
    EvalKeywords(es, exp, in_str, parsed,
                 ExpandFields(es, exp, parsed.tuples, <<>>, stack), allow_passthrough, stack)

\* lines 299-319, expanded being exp_dict
EvalKeywords(es, exp, in_str, parsed, expanded, allow_passthrough, stack) ==
    IF IsRaise(expanded) THEN expanded
    ELSE IF parsed.err # "" THEN Raise(parsed.err)
    ELSE FormatKeywords(in_str, parsed,
                        EvalFields(es, exp, DictKeys(expanded.val), expanded.val, <<>>,
                                   allow_passthrough, stack),
                        allow_passthrough)

\* line 239: str(expanded)
Text(evaluated) == IF IsRaise(evaluated) THEN evaluated ELSE str(evaluated.val)

RECURSIVE rstrip(_)
rstrip(s) == IF s # <<>> /\ s[Len(s)] = " " THEN rstrip(SubSeq(s, 1, Len(s) - 1)) ELSE s

\* the mutant: strip() for lstrip()
MutStripped(text) == IF IsRaise(text) THEN text ELSE Ok(rstrip(lstrip(text.val)))

\* line 239: lstrip()
Stripped(text) == IF IsRaise(text) THEN text ELSE Ok(lstrip(text.val))

\* lines 204-239
expand_var(es, exp, var, allow_passthrough, stack) ==
    IF Recursion(stack, Frame("expand_var", exp, var)) THEN Raise("RecursionError")
    ELSE ExpandFully(es, exp,
                     partial_expand(es, exp, var, allow_passthrough,
                                    stack \cup {Frame("expand_var", exp, var)}),
                     allow_passthrough, stack \cup {Frame("expand_var", exp, var)})

\* lines 224-237, expanded being what _partial_expand returns
ExpandFully(es, exp, expanded, allow_passthrough, stack) ==
    IF IsRaise(expanded) THEN expanded
    ELSE EvaluateFull(es, exp, expanded.val, fully_expanded(expanded.val),
                      allow_passthrough, stack)

\* lines 224-239, full being what _fully_expanded gives of expanded
EvaluateFull(es, exp, expanded, full, allow_passthrough, stack) ==
    IF IsRaise(full) THEN full
    ELSE IF full.val THEN Stripped(Text(try_eval(es, exp, expanded, stack)))
    ELSE IF ~allow_passthrough THEN Raise("ExpanderError")
    ELSE Ok(lstrip(expanded))

(***************************************************************************)
(* Expander: the calls of expand_var on the expander of one experiment     *)
(***************************************************************************)
\* bound: the length of the strings expanded, beside the templates below
MaxLen == 3

ExpandAlphabet == {"{", "}", "a", "1", "/", "0", " ", "."}

\* the namespaces of the experiment of the expander and of another one
ThisExperiment == <<"a", ".", "a", ".", "a">>

OtherExperiment == <<"c", ".", "c", ".", "c">>

\* "n in c.c.c"
CrossReference == <<"n", " ", "i", "n", " ", "c", ".", "c", ".", "c">>

Templates ==
    { <<"{", "v", "}">>,
      <<"{", "a", "}">>,
      <<"{", "n", "}">>,
      <<"{", "a", "}", "{", "n", "}">>,
      <<"{", "{", "a", "}", "}">>,
      <<"{", "a", ".", "c", "}">>,
      <<" ", "{", "a", "}">>,
      <<"1", "{", "a", "}">>,
      <<"{", "a", "}", "/", "0">>,
      <<"1", "/", "{", "n", "}">>,
      <<"1", "+", "1">>,
      <<"1", "-", "1", "/", "0">>,
      <<"1", "/", "2">>,
      <<"-", "1">>,
      <<"1", " ", "1">>,
      <<"a", "+", "1">>,
      <<"1", " ", ".", "a">>,
      <<"{", "1", "}">>,
      <<"{", "}", "{", "a", "}">>,
      <<"{", "{", "}", "}">>,
      CrossReference,
      <<"a", " ", "i", "n", " ", "c", ".", "c", ".", "c">>,
      <<"n", " ", "i", "n", " ", "a", ".", "a", ".", "a">>,
      <<"n", " ", "i", "n", " ", "c">>,
      <<"1", " ", "i", "n", " ", "c", ".", "c", ".", "c">>,
      <<"{", "n", " ", "i", "n", " ", "c", ".", "c", ".", "c", "}">> }

\* comparisons of numbers: of two operands, and chained
ComparisonTemplates ==
    { <<"1", "<", "2">>,
      <<"2", "<", "1">>,
      <<"1", "<", "2", "<", "3">>,
      <<"1", "<", "3", "<", "2">>,
      <<"3", ">", "2", ">", "1">>,
      <<"1", " ", "<", " ", "2", " ", ">", " ", "1">>,
      <<"2", "<", "1", "<", "a">>,
      <<"1", "<", "2", "<", "1", "/", "0">> }

\* and, or: of ints, of bools, and with an operand that cannot be evaluated
BoolTemplates ==
    { <<"1", " ", "a", "n", "d", " ", "2">>,
      <<"1", " ", "a", "n", "d", " ", "0">>,
      <<"0", " ", "o", "r", " ", "3">>,
      <<"2", " ", "o", "r", " ", "1">>,
      <<"1", " ", "o", "r", " ", "1", "/", "0">>,
      <<"0", " ", "a", "n", "d", " ", "1", "/", "0">>,
      <<"0", " ", "o", "r", " ", "1", "/", "0">>,
      <<"T", "r", "u", "e", " ", "a", "n", "d", " ", "F", "a", "l", "s", "e">>,
      <<"T", "r", "u", "e", " ", "o", "r", " ", "F", "a", "l", "s", "e">>,
      <<"1", " ", "a", "n", "d", " ", "2", " ", "a", "n", "d", " ", "3">>,
      <<"0", " ", "o", "r", " ", "a">>,
      <<"1", " ", "a", "n", "d", " ", "1", ".", "5">> }

\* calls: of range, of another name, and of what is no name
CallTemplates ==
    { <<"r", "a", "n", "g", "e", "(", "3", ")">>,
      <<"r", "a", "n", "g", "e", "(", "1", ",", "3", ")">>,
      <<"r", "a", "n", "g", "e", "(", "3", ",", "0", ",", "-", "1", ")">>,
      <<"r", "a", "n", "g", "e", "(", "a", ")">>,
      <<"r", "a", "n", "g", "e", "(", ")">>,
      <<"r", "a", "n", "g", "e", "(", "1", ",", "2", ",", "0", ")">>,
      <<"a", "(", "1", ")">>,
      <<"a", "(", ")">>,
      <<"a", "(", "1", "/", "0", ")">>,
      <<"a", ".", "c", "(", "1", ")">>,
      <<"a", "(", "1", ")", "+", "1">>,
      <<"{", "a", "}", "(", "1", ")">> }

VarPool ==
    SeqsUpTo(ExpandAlphabet, MaxLen) \cup Templates \cup ComparisonTemplates
        \cup BoolTemplates \cup CallTemplates

\* the definitions of one variable: none, or one of the values
Defined(name, values) == {<<>>} \cup {name :> value : value \in values}

\* the variables of the experiment of the expander: v is the cross reference
ThisVariables ==
    { (<<"v">> :> CrossReference) @@ a @@ n :
        a \in Defined(<<"a">>, { <<"1">>, <<"{", "n", "}">>, <<"1", "/", "0">>,
                                 <<"}">>, <<"{", "a", "}">>, <<"{", "v", "}">> }),
        n \in Defined(<<"n">>, { <<"2">> }) }

OtherVariables ==
    { n @@ a :
        n \in Defined(<<"n">>, { <<"1">>, <<>>, <<" ", "1", "+", "1">>,
                                 <<"{", "a", "}">> }),
        a \in Defined(<<"a">>, { <<"3">> }) }

\* the experiment sets: with and without the other experiment
ExperimentSets ==
    { ThisExperiment :> this : this \in ThisVariables }
    \cup { (ThisExperiment :> (<<"v">> :> CrossReference))
             @@ (OtherExperiment :> other) : other \in OtherVariables }
    \cup { (ThisExperiment :> this) @@ (OtherExperiment :> (<<"n">> :> <<"1">>)) :
             this \in ThisVariables }

\* lines 525-547: ExpanderError and its subclasses
ExpanderErrors == {"ExpanderError", "MathEvaluationError", "RambleSyntaxError"}

NoResult == [kind |-> "none", val |-> <<>>]

ExpandInit ==
    /\ experiments \in ExperimentSets
    /\ ex_self = ThisExperiment
    /\ ex_pc = "ready"
    /\ ex_var = <<>>
    /\ ex_passthrough = TRUE
    /\ ex_extra = <<>>
    /\ ex_result = NoResult

ExpandIdle ==
    /\ experiments = <<>>
    /\ ex_self = <<>>
    /\ ex_pc = "off"
    /\ ex_var = <<>>
    /\ ex_passthrough = TRUE
    /\ ex_extra = <<>>
    /\ ex_result = NoResult

\* the calls whose arithmetic the model can write
Modelled(outcome) == ~(outcome.kind = "raise" /\ outcome.val = "Unmodelled")

\* the extra_vars of a call: none, or definitions of n and a
ExtraPool ==
    { <<>>,
      <<"n">> :> <<"3">>,
      <<"a">> :> <<"{", "n", "}">>,
      (<<"a">> :> <<"3">>) @@ (<<"n">> :> <<"1">>),
      (<<"a">> :> <<"{", "n", "}">>) @@ (<<"n">> :> <<"{", "a", "}">>) }

\* the strings expanded with extra_vars, and by the call that follows
ExtraTemplates ==
    { <<"{", "n", "}">>,
      <<"{", "a", "}">>,
      <<"{", "a", "}", "{", "n", "}">>,
      <<"1", "/", "{", "n", "}">>,
      <<"n", " ", "i", "n", " ", "a", ".", "a", ".", "a">> }

\* the variables expand_var expands with: never a key of the experiment set
CallScope == <<"expansions">>

\* lines 216-219: expansions is self._variables, or a copy of it updated
\* with extra_vars
expansions(variables, extra_vars) ==
    IF extra_vars = <<>> THEN variables ELSE extra_vars @@ variables

\* extra_vars update self._variables itself
MutKeptVariables(variables, extra_vars) == expansions(variables, extra_vars)

\* lines 216-219: self._variables after the call; extra_vars update the copy
KeptVariables(variables, extra_vars) == variables

\* lines 204-239: expand_var(var, extra_vars, allow_passthrough) of the
\* expander of exp; the references to an experiment read its own variables
ExpandWith(es, exp, var, extra_vars, allow_passthrough) ==
    IF extra_vars = <<>> THEN expand_var(es, exp, var, allow_passthrough, {})
    ELSE expand_var((CallScope :> expansions(es[exp], extra_vars)) @@ es, CallScope, var,
                    allow_passthrough, {})

\* lines 172-185: the errors expand_lists catches
ListErrors == {"MathEvaluationError", "AttributeError", "ValueError", "SyntaxError"}

ListOutcome(elements) == [kind |-> "list", val |-> elements]

\* lines 172-177: a list is returned, any other value gives var
ListOf(var, value) ==
    IF IsRaise(value) THEN IF value.val \in ListErrors THEN Ok(var) ELSE value
    ELSE IF value.val.t = "list" THEN ListOutcome(value.val.v)
    ELSE Ok(var)

\* lines 161-185, math_ast being what ast.parse gives of var
ListParsed(es, exp, var, math_ast) ==
    IF Bracketed(var) THEN Unmodelled
    ELSE IF ~math_ast.ok THEN Ok(var)
    ELSE ListOf(var, eval_math(es, exp, math_ast.node, {}))

\* lines 161-185
expand_lists(es, exp, var) == ListParsed(es, exp, var, ast_parse(var))

\* the strings given to expand_lists
ListPool == CallTemplates \cup BoolTemplates \cup ExtraTemplates

\* lines 204-239: one call of expand_var on the expander of ex_self; a call
\* with extra_vars is followed by one without
ExpandVar ==
    /\ ex_pc \in {"ready", "extra"}
    /\ \E var \in IF ex_pc = "ready" THEN VarPool ELSE ExtraTemplates,
          extra_vars \in IF ex_pc = "ready" THEN ExtraPool ELSE {<<>>},
          allow_passthrough \in BOOLEAN :
          LET result == ExpandWith(experiments, ex_self, var, extra_vars, allow_passthrough)
          IN  /\ extra_vars # <<>> => var \in ExtraTemplates
              /\ Modelled(result)
              /\ ex_var' = var
              /\ ex_passthrough' = allow_passthrough
              /\ ex_extra' = extra_vars
              /\ ex_result' = result
              /\ ex_pc' = IF extra_vars # <<>> THEN "extra"
                          ELSE IF ex_pc = "ready" THEN "returned" ELSE "later"
              /\ experiments' = [experiments EXCEPT
                                    ![ex_self] = KeptVariables(@, extra_vars)]
    /\ UNCHANGED ex_self
    /\ UNCHANGED <<chainVars, anVars, setVars, invVars, phVars>>

\* lines 161-185: one call of expand_lists on the expander of ex_self
ExpandLists ==
    /\ ex_pc = "ready"
    /\ \E var \in ListPool :
          LET result == expand_lists(experiments, ex_self, var)
          IN  /\ Modelled(result)
              /\ ex_var' = var
              /\ ex_result' = result
    /\ ex_pc' = "listed"
    /\ UNCHANGED <<experiments, ex_self, ex_passthrough, ex_extra>>
    /\ UNCHANGED <<chainVars, anVars, setVars, invVars, phVars>>

ExpandNext ==
    \/ ExpandVar
    \/ ExpandLists

(***************************************************************************)
(* Experiment set: set_application_context, set_workload_context and       *)
(* set_experiment_context, as section 4.3 of the specification gives them *)
(* and as ramble/test/experiment_set.py calls them. The variables of an    *)
(* experiment are the scopes merged, the experiment over the workload over *)
(* the application. The vectors named by the matrix are multiplied, those  *)
(* of an explicit zip are zipped, and the vectors left are the implicit    *)
(* zip; each tuple of the render universe renders one experiment, named by *)
(* the expansion of the name template, unless an exclusion takes it out.   *)
(***************************************************************************)
\* bound: the calls made on one experiment set
MaxCalls == 4

NoContext == [defined |-> FALSE, name |-> <<>>, variables |-> <<>>, vectors |-> <<>>]

VectorContext(name, variables, vectors) ==
    [defined |-> TRUE, name |-> name, variables |-> variables, vectors |-> vectors]

Context(name, variables) == VectorContext(name, variables, <<>>)

ApplicationPool ==
    { Context(<<"a">>, <<>>), Context(<<"c">>, <<"n">> :> <<"1">>) }

\* the last workload has the vector c, as wl_var2 of lines 124-128
WorkloadPool ==
    { Context(<<"a">>, <<>>), Context(<<"a">>, <<"a">> :> <<"1">>),
      VectorContext(<<"c">>, <<>>, <<"c">> :> << <<"1">>, <<"2">> >>) }

\* an exclusion: the values of variables, those of the variables matrix names
\* multiplied and the others zipped, and the predicates of where
Exclude(variables, matrix, where) ==
    [variables |-> variables, matrix |-> matrix, where |-> where]

NoExclude == Exclude(<<>>, <<>>, <<>>)

Zip(name, variables) == [name |-> name, variables |-> variables]

\* the arguments of set_experiment_context: zips is a list of explicit zips
\* and matrix the one matrix, a list of names of zips and of variables
ExperimentContext(name, variables, vectors, zips, matrix, exclude) ==
    [name |-> name, variables |-> variables, vectors |-> vectors, zips |-> zips,
     matrix |-> matrix, exclude |-> exclude]

Experiment(name, variables, vectors) ==
    ExperimentContext(name, variables, vectors, <<>>, <<>>, NoExclude)

\* the name templates v, v{n} and v{a}, with scalars and vectors
ExperimentPool ==
    { Experiment(<<"v">>, <<>>, <<>>),
      Experiment(<<"v", "{", "n", "}">>, <<>>, <<>>),
      Experiment(<<"v", "{", "n", "}">>, <<"n">> :> <<"2">>, <<>>),
      Experiment(<<"v", "{", "n", "}">>, <<>>, <<"n">> :> << <<"1">>, <<"2">> >>),
      Experiment(<<"v", "{", "n", "}">>, <<>>, <<"n">> :> << <<"1">>, <<"1">> >>),
      Experiment(<<"v", "{", "a", "}">>, <<"a">> :> <<"1">>,
                 <<"n">> :> << <<"1">>, <<"2">> >>),
      Experiment(<<"v", "{", "n", "}">>, <<>>,
                 (<<"n">> :> << <<"1">>, <<"2">> >>) @@ (<<"a">> :> << <<"1">> >>)) }

\* the name template v{n}{a}
TwoNames == <<"v", "{", "n", "}", "{", "a", "}">>

\* the vectors n and a, of the lengths 2 and 2, 2 and 3, and 2 and 1
Square == (<<"n">> :> << <<"1">>, <<"2">> >>) @@ (<<"a">> :> << <<"1">>, <<"2">> >>)

Oblong ==
    (<<"n">> :> << <<"1">>, <<"2">> >>) @@ (<<"a">> :> << <<"1">>, <<"2">>, <<"3">> >>)

Ragged == (<<"n">> :> << <<"1">>, <<"2">> >>) @@ (<<"a">> :> << <<"1">> >>)

\* the explicit zip z of n and a
ZipOfBoth == << Zip(<<"z">>, << <<"n">>, <<"a">> >>) >>

\* explicit zips, as the tests of lines 1207-1567 declare them
ZipPool ==
    { ExperimentContext(TwoNames, <<>>, Square, ZipOfBoth, <<>>, NoExclude),
      ExperimentContext(TwoNames, <<>>, Ragged, ZipOfBoth, <<>>, NoExclude),
      ExperimentContext(TwoNames, <<>>, Oblong, << Zip(<<"z">>, << <<"n">> >>) >>,
                        << <<"a">> >>, NoExclude),
      ExperimentContext(TwoNames, <<>>, Square,
                        << Zip(<<"z">>, << <<"n">>, <<"i">> >>) >>, <<>>, NoExclude) }

\* one matrix, as the tests of lines 228-453 declare it
MatrixPool ==
    { ExperimentContext(TwoNames, <<>>, Oblong, <<>>, << <<"n">>, <<"a">> >>, NoExclude),
      ExperimentContext(TwoNames, <<>>, Oblong, <<>>, << <<"n">> >>, NoExclude),
      ExperimentContext(TwoNames, <<>>, Square, ZipOfBoth, << <<"z">> >>, NoExclude),
      ExperimentContext(TwoNames, <<>>, Square, <<>>, << <<"n">>, <<"i">> >>, NoExclude),
      ExperimentContext(TwoNames, <<>>, Oblong @@ (<<"i">> :> << <<"1">>, <<"2">> >>),
                        <<>>, << <<"n">> >>, NoExclude) }

\* "{n} > 1" and "{a} < 2"
Above == <<"{", "n", "}", " ", ">", " ", "1">>

Below == <<"{", "a", "}", " ", "<", " ", "2">>

\* exclusions, as the tests of lines 1570-1763 declare them
ExcludePool ==
    { ExperimentContext(<<"v", "{", "n", "}">>, <<>>, <<"n">> :> << <<"1">>, <<"2">> >>,
                        <<>>, <<>>, Exclude(<<"n">> :> << <<"2">> >>, <<>>, <<>>)),
      ExperimentContext(TwoNames, <<>>, Oblong, <<>>, << <<"n">>, <<"a">> >>,
                        Exclude((<<"n">> :> << <<"1">> >>)
                                    @@ (<<"a">> :> << <<"1">>, <<"3">> >>),
                                << <<"n">>, <<"a">> >>, <<>>)),
      ExperimentContext(TwoNames, <<>>, Oblong, <<>>, << <<"n">>, <<"a">> >>,
                        Exclude((<<"n">> :> << <<"1">>, <<"2">> >>)
                                    @@ (<<"a">> :> << <<"3">>, <<"1">> >>),
                                <<>>, <<>>)),
      ExperimentContext(<<"v", "{", "n", "}">>, <<>>,
                        <<"n">> :> << <<"1">>, <<"2">>, <<"3">> >>,
                        <<>>, <<>>, Exclude(<<>>, <<>>, << Above >>)),
      ExperimentContext(TwoNames, <<>>, Oblong, <<>>, << <<"n">>, <<"a">> >>,
                        Exclude(<<"n">> :> << <<"2">> >>, <<>>, << Above, Below >>)) }

Declarations == ExperimentPool \cup ZipPool \cup MatrixPool \cup ExcludePool

\* the experiment being rendered has no namespace yet
Rendering == <<>>

\* step 5: the tuples of one zip, the vectors taken position by position
RenderUniverse(vectors) ==
    IF DOMAIN vectors = {} THEN << <<>> >>
    ELSE LET length == Len(vectors[CHOOSE name \in DOMAIN vectors : TRUE])
         IN  [i \in 1..length |-> [name \in DOMAIN vectors |-> vectors[name][i]]]

\* steps 3 and 4: the vectors of one zip have one length
LengthMismatch(vectors) == Cardinality({Len(vectors[name]) : name \in DOMAIN vectors}) > 1

Restrict(f, names) == [name \in names \cap DOMAIN f |-> f[name]]

\* step 1: the vectors of the scopes merged, the inner scope over the outer
MergedVectors(experiment, workload, application) ==
    experiment.vectors
        @@ Restrict(workload.vectors, DOMAIN workload.vectors \ DOMAIN experiment.variables)

\* step 1: the scalars of the scopes merged
MergedVariables(experiment, workload, application) ==
    experiment.variables @@ workload.variables @@ application.variables

ZipNames(zips) == {zips[i].name : i \in 1..Len(zips)}

\* step 5: the variables an entry of the matrix names, those of a zip or one
EntryVariables(zips, entry) ==
    IF entry \in ZipNames(zips)
    THEN Range(zips[CHOOSE i \in 1..Len(zips) : zips[i].name = entry].variables)
    ELSE {entry}

\* the variables the explicit zips and the matrix take
Taken(zips, matrix) ==
    UNION ({Range(zips[i].variables) : i \in 1..Len(zips)}
               \cup {EntryVariables(zips, matrix[i]) : i \in 1..Len(matrix)})

\* step 3: the vectors of the implicit zip
ImplicitZip(vectors, zips, matrix) == DOMAIN vectors \ Taken(zips, matrix)

\* the explicit zips no entry of the matrix names
Unconsumed(zips, matrix) ==
    SelectSeq(zips, LAMBDA zip : zip.name \notin Range(matrix))

\* step 5: the zips multiplied: the entries of the matrix, the explicit zips
\* left and the implicit zip
ZipsOf(vectors, zips, matrix) ==
    [i \in 1..Len(matrix) |-> EntryVariables(zips, matrix[i])]
        \o [i \in 1..Len(Unconsumed(zips, matrix)) |->
                Range(Unconsumed(zips, matrix)[i].variables)]
        \o (IF ImplicitZip(vectors, zips, matrix) = {} THEN <<>>
            ELSE << ImplicitZip(vectors, zips, matrix) >>)

\* the mutant: the tuples of first and of rest are taken position by position
MutMultiplied(first, rest) ==
    [i \in 1..(IF Len(first) < Len(rest) THEN Len(first) ELSE Len(rest)) |->
        first[i] @@ rest[i]]

\* the tuples of first, each with every tuple of rest
Multiplied(first, rest) ==
    Flatten([i \in 1..Len(first) |-> [j \in 1..Len(rest) |-> first[i] @@ rest[j]]])

\* step 5: the Cartesian product of the universes
RECURSIVE CrossProduct(_)
CrossProduct(universes) ==
    IF universes = <<>> THEN << <<>> >>
    ELSE Multiplied(Head(universes), CrossProduct(Tail(universes)))

Universes(vectors, groups) ==
    [i \in 1..Len(groups) |-> RenderUniverse(Restrict(vectors, groups[i]))]

\* step 5: the render universe
Universe(vectors, zips, matrix) ==
    CrossProduct(Universes(vectors, ZipsOf(vectors, zips, matrix)))

\* the mutant: the vectors of an explicit zip are not measured
MutContextError(vectors, zips, matrix) ==
    IF LengthMismatch(Restrict(vectors, ImplicitZip(vectors, zips, matrix)))
    THEN "length mismatch"
    ELSE IF \E i \in 1..Len(zips) : ~(Range(zips[i].variables) \subseteq DOMAIN vectors)
    THEN "undefined variable in zip"
    ELSE IF \E i \in 1..Len(zips) : LengthMismatch(Restrict(vectors, Range(zips[i].variables)))
    THEN "undefined variable in zip"
    ELSE IF \E i \in 1..Len(matrix) : matrix[i] \notin ZipNames(zips) \cup DOMAIN vectors
    THEN "variable not defined"
    ELSE ""

\* steps 3 to 5: the error of the declaration, or none
ContextError(vectors, zips, matrix) ==
    IF LengthMismatch(Restrict(vectors, ImplicitZip(vectors, zips, matrix)))
    THEN "length mismatch"
    ELSE IF \E i \in 1..Len(zips) : ~(Range(zips[i].variables) \subseteq DOMAIN vectors)
    THEN "undefined variable in zip"
    ELSE IF \E i \in 1..Len(zips) : LengthMismatch(Restrict(vectors, Range(zips[i].variables)))
    THEN "length mismatch in zip"
    ELSE IF \E i \in 1..Len(matrix) : matrix[i] \notin ZipNames(zips) \cup DOMAIN vectors
    THEN "variable not defined"
    ELSE ""

\* step 6: the expansion of a template with the variables of one tuple
RenderName(name, variables) ==
    expand_var((Rendering :> variables) @@ experiments, Rendering, name, TRUE, {})

Namespace(application, workload, experiment) ==
    application \o <<".">> \o workload \o <<".">> \o experiment

\* step 7 (a): the variables have the values of one tuple of the exclusion
VariablesExclude(variables, exclude) ==
    /\ DOMAIN exclude.variables # {}
    /\ \E excluded \in Range(Universe(exclude.variables, <<>>, exclude.matrix)) :
          \A name \in DOMAIN excluded :
              name \in DOMAIN variables /\ variables[name] = excluded[name]

\* the predicate is true, or one of the rest is
AnyTrue(predicate, rest) ==
    IF IsRaise(predicate) THEN predicate
    ELSE IF predicate.val = <<"T", "r", "u", "e">> THEN Ok(TRUE)
    ELSE rest

\* step 7 (b): one predicate of where is true of the variables
RECURSIVE WhereExcludes(_, _)
WhereExcludes(variables, where) ==
    IF where = <<>> THEN Ok(FALSE)
    ELSE AnyTrue(RenderName(Head(where), variables), WhereExcludes(variables, Tail(where)))

\* the mutant: the exclusion by variables is left out
MutExcluded(variables, exclude) == WhereExcludes(variables, exclude.where)

\* step 7: the exclusion takes out the tuple of the variables
Excluded(variables, exclude) ==
    IF VariablesExclude(variables, exclude) THEN Ok(TRUE)
    ELSE WhereExcludes(variables, exclude.where)

\* the mutant: only the names of one call are compared
MutNotUnique(rendered, known) ==
    \E i, j \in 1..Len(rendered) : i # j /\ rendered[i] = rendered[j]

\* step 6 and the invariant of section 3: a name rendered twice, or the
\* name of an experiment of the set
NotUnique(rendered, known) ==
    \/ \E i, j \in 1..Len(rendered) : i # j /\ rendered[i] = rendered[j]
    \/ \E i \in 1..Len(rendered) : rendered[i] \in Range(known)

NoCall ==
    [op |-> "none", experiment |-> Experiment(<<>>, <<>>, <<>>), vectors |-> <<>>,
     universe |-> <<>>, rendered |-> <<>>, order |-> <<>>, experiments |-> <<>>]

\* the call, and the set before it
Ingested(op, experiment, vectors, universe, rendered) ==
    [op |-> op, experiment |-> experiment, vectors |-> vectors, universe |-> universe,
     rendered |-> rendered, order |-> experiment_order, experiments |-> experiments]

Call(op, rendered) == Ingested(op, NoCall.experiment, <<>>, <<>>, rendered)

SetInit ==
    /\ set_pc = "open"
    /\ application_context = NoContext
    /\ workload_context = NoContext
    /\ experiment_order = <<>>
    /\ set_err = ""
    /\ set_calls = 0
    /\ set_call = NoCall

\* the set of an expander: its experiments in the order they were added
SetIdle ==
    /\ set_pc = "off"
    /\ application_context = <<>>
    /\ workload_context = <<>>
    /\ experiment_order \in {<<>>, <<ThisExperiment>>, <<ThisExperiment, OtherExperiment>>}
    /\ Range(experiment_order) = DOMAIN experiments
    /\ set_err = ""
    /\ set_calls = 0
    /\ set_call = <<>>

set_application_context ==
    /\ set_pc = "open"
    /\ set_calls < MaxCalls
    /\ \E context \in ApplicationPool :
          /\ application_context' = context
          /\ set_call' = Call("set_application_context", <<>>)
    /\ workload_context' = NoContext
    /\ set_calls' = set_calls + 1
    /\ UNCHANGED <<set_pc, experiment_order, set_err>>
    /\ UNCHANGED <<chainVars, anVars, exVars, invVars, phVars>>

set_workload_context ==
    /\ set_pc = "open"
    /\ set_calls < MaxCalls
    /\ application_context.defined
    /\ \E context \in WorkloadPool :
          /\ workload_context' = context
          /\ set_call' = Call("set_workload_context", <<>>)
    /\ set_calls' = set_calls + 1
    /\ UNCHANGED <<set_pc, application_context, experiment_order, set_err>>
    /\ UNCHANGED <<chainVars, anVars, exVars, invVars, phVars>>

\* the call fails: the process exits and the set is as it was
Die(err) ==
    /\ set_pc' = "error"
    /\ set_err' = err
    /\ UNCHANGED <<experiments, experiment_order>>

\* the positions of the tuples no exclusion takes out
Kept(excluded) == SelectSeq([i \in 1..Len(excluded) |-> i], LAMBDA i : ~excluded[i].val)

\* steps 6 to 8: names is the name rendered of every tuple of the universe of
\* rendered_vars, and excluded what the exclusion makes of it
Persist(experiment, vectors, rendered_vars, names, excluded) ==
    LET failed == {i \in 1..Len(names) : IsRaise(names[i])}
        no_predicate == {i \in 1..Len(names) : IsRaise(excluded[i])}
        rendered == [i \in 1..Len(names) |->
                        Namespace(application_context.name, workload_context.name,
                                  names[i].val)]
        kept == [i \in 1..Len(Kept(excluded)) |-> rendered[Kept(excluded)[i]]]
    IN  /\ \A i \in 1..Len(names) : Modelled(names[i]) /\ Modelled(excluded[i])
        /\ IF failed # {}
           THEN /\ Die(names[CHOOSE i \in failed : TRUE].val)
                /\ set_call' = Ingested("set_experiment_context", experiment, vectors,
                                        rendered_vars, <<>>)
           ELSE IF no_predicate # {}
           THEN /\ Die(excluded[CHOOSE i \in no_predicate : TRUE].val)
                /\ set_call' = Ingested("set_experiment_context", experiment, vectors,
                                        rendered_vars, <<>>)
           ELSE /\ set_call' = Ingested("set_experiment_context", experiment, vectors,
                                        rendered_vars, rendered)
                /\ IF NotUnique(rendered, experiment_order)
                   THEN Die("not unique")
                   ELSE /\ experiments' =
                               [namespace \in DOMAIN experiments \cup Range(kept) |->
                                   IF namespace \in Range(kept)
                                   THEN rendered_vars[CHOOSE i \in 1..Len(rendered) :
                                                          rendered[i] = namespace]
                                   ELSE experiments[namespace]]
                        /\ experiment_order' = experiment_order \o kept
                        /\ UNCHANGED <<set_pc, set_err>>

\* steps 5 to 7: the tuples of the universe are rendered
Render(experiment, vectors, rendered_vars) ==
    Persist(experiment, vectors, rendered_vars,
            [i \in 1..Len(rendered_vars) |-> RenderName(experiment.name, rendered_vars[i])],
            [i \in 1..Len(rendered_vars) |-> Excluded(rendered_vars[i], experiment.exclude)])

\* the variables of every tuple: its values over the scalars merged
RenderedVariables(universe, variables) ==
    [i \in 1..Len(universe) |-> universe[i] @@ variables]

\* steps 1 to 5 on the vectors and the scalars merged
Ingest(experiment, vectors, variables) ==
    IF ContextError(vectors, experiment.zips, experiment.matrix) # ""
    THEN /\ Die(ContextError(vectors, experiment.zips, experiment.matrix))
         /\ set_call' = Ingested("set_experiment_context", experiment, vectors, <<>>, <<>>)
    ELSE Render(experiment, vectors,
                RenderedVariables(Universe(vectors, experiment.zips, experiment.matrix),
                                  variables))

set_experiment_context ==
    /\ set_pc = "open"
    /\ set_calls < MaxCalls
    /\ workload_context.defined
    /\ \E experiment \in Declarations :
          Ingest(experiment,
                 MergedVectors(experiment, workload_context, application_context),
                 MergedVariables(experiment, workload_context, application_context))
    /\ set_calls' = set_calls + 1
    /\ UNCHANGED <<application_context, workload_context>>
    /\ UNCHANGED <<ex_self, ex_pc, ex_var, ex_passthrough, ex_extra, ex_result>>
    /\ UNCHANGED <<chainVars, anVars, invVars, phVars>>

SetNext ==
    \/ set_application_context
    \/ set_workload_context
    \/ set_experiment_context

(***************************************************************************)
(* Inventory: ApplicationBase._write_inventory and _clean_hash_variables.  *)
(* A string is the sequence of its pieces, a path having one piece for     *)
(* each separator, a dict the list of its items in the                     *)
(* order they were set. The digests of ramble.util.hashing are over the    *)
(* canonical JSON of section 4.6 of the specification: a digest is written *)
(* as the text it is the digest of, two digests being equal exactly when   *)
(* the texts are.                                                          *)
(***************************************************************************)
\* bound: the runs of the write_inventory phase on one instance
MaxWrites == 2

Instances == {1, 2}

os_path_sep == "/"

\* ApplicationBase._inventory_file_name
inventory_file_name == "ramble_inventory.json"

JsonNull == [t |-> "null", v |-> <<>>]

\* a variable that is a list of one string
ListValue(s) == [t |-> "list", v |-> s]

JsonDict(items) == [t |-> "dict", v |-> items]

JsonList(elements) == [t |-> "list", v |-> elements]

\* str.replace(old, new), old not empty: the occurrences from the left
RECURSIVE replace(_, _, _)
replace(s, old, new) ==
    IF Len(s) < Len(old) THEN s
    ELSE IF SubSeq(s, 1, Len(old)) = old
    THEN new \o replace(SubSeq(s, Len(old) + 1, Len(s)), old, new)
    ELSE <<Head(s)>> \o replace(Tail(s), old, new)

\* lines 911-913: del variables['workspace_name']
NotWorkspaceName(item) == item[1] # "workspace_name"

\* lines 915-918
WithoutRoot(workspace, variables) ==
    [k \in 1..Len(variables) |->
        IF variables[k][2].t = "str"
        THEN <<variables[k][1],
               StrValue(replace(variables[k][2].v, workspace.root \o <<os_path_sep>>, <<>>))>>
        ELSE variables[k]]

\* the mutant: workspace_name is left in
Mutclean_hash_variables(workspace, variables) == WithoutRoot(workspace, variables)

\* lines 904-918
clean_hash_variables(workspace, variables) ==
    WithoutRoot(workspace, SelectSeq(variables, NotWorkspaceName))

\* canonical JSON: the items of a dict by their keys, whatever their order
Canonical(data) ==
    [t |-> data.t,
     v |-> IF data.t = "dict" THEN {<<data.v[k][1], data.v[k][2]>> : k \in 1..Len(data.v)}
           ELSE data.v]

\* ramble.util.hashing
hash_json(data) == <<"sha256", Canonical(data)>>

hash_string(string) == <<"sha256", string>>

hash_file(content) == <<"sha256", content>>

\* lines 932-948
AttributeDigests(self, vars_to_hash) ==
    << [name |-> "variables", digest |-> hash_json(JsonDict(vars_to_hash))],
       [name |-> "modifiers", digest |-> hash_json(JsonList(self.modifiers))],
       [name |-> "chained_experiments", digest |-> hash_json(self.chained_experiments)],
       [name |-> "internals", digest |-> hash_json(self.internals)],
       [name |-> "env_vars", digest |-> hash_json(self.env_variable_sets)] >>

\* lines 950-957, templates being workspace.all_templates()
TemplateDigests(templates) ==
    [k \in 1..Len(templates) |->
        [name |-> templates[k][1], digest |-> templates[k][2].digest]]

\* lines 962-976
InputDigests(input_fetchers) ==
    [k \in 1..Len(input_fetchers) |->
        LET input_conf == input_fetchers[k][2] IN
        IF input_conf.fetcher.digest # <<>>
        THEN [name |-> input_conf.input_name, digest |-> input_conf.fetcher.digest]
        ELSE [name |-> input_conf.input_name,
              digest |-> hash_string(input_conf.fetcher.url)]]

\* lines 943-976: the entries are appended to the lists of hash_inventory
Appended(inventory, self, workspace, vars_to_hash) ==
    [attributes |-> inventory.attributes \o AttributeDigests(self, vars_to_hash),
     inputs     |-> inventory.inputs \o InputDigests(self.input_fetchers),
     software   |-> inventory.software,
     templates  |-> inventory.templates \o TemplateDigests(workspace.templates)]

\* line 979, spack_json.dump: the keys of hash_inventory in their order
dump(inventory) ==
    << <<"attributes", inventory.attributes>>, <<"inputs", inventory.inputs>>,
       <<"software", inventory.software>>, <<"templates", inventory.templates>> >>

RootPool == {<<"/", "a">>, <<"/", "b">>}

\* the values of the variable n in a workspace: a path under the root, a
\* word, two texts that hold the path /a/ and a list of one path
ValuesIn(root) ==
    { StrValue(root \o <<"/", "x">>), StrValue(<<"x">>),
      StrValue(<<"x", "/", "a", "/", "y">>), StrValue(<<"/", "a", "/", "x">>),
      ListValue(root \o <<"/", "x">>) }

\* the variables an experiment is given beside those of its directories: n,
\* and workspace_name set before or after it
VariablesIn(root, names, orders) ==
    { << <<"n", value>> >> : value \in ValuesIn(root) }
    \cup { IF first
           THEN << <<"workspace_name", StrValue(name)>>, <<"n", value>> >>
           ELSE << <<"n", value>>, <<"workspace_name", StrValue(name)>> >> :
             value \in ValuesIn(root), name \in names, first \in orders }

\* workspace.all_templates(), of one template
Templates1(digest) == << <<"execute_experiment", [digest |-> digest]>> >>

Workspace(root, templates) == [root |-> root, templates |-> templates]

(***************************************************************************)
(* Application instance: run_phase, and the command that add_expand_vars   *)
(* injects on the first phase. The name of an executable is the sequence   *)
(* of its pieces, the prefix builtin:: being one piece, so that the        *)
(* regular expressions of _inject_commands are a search and a match of     *)
(* pieces. A text is the sequence of its pieces too, a reference           *)
(* {name} to a variable being one piece; a path is written with one piece  *)
(* for each separator. A line of the command is first written as what      *)
(* makes it and the exec_vars it is expanded with, and command_text gives  *)
(* the string.                                                             *)
(***************************************************************************)
\* bound: the phases run on one experiment
MaxPhases == 3

\* line 52: _exec_prefix_builtin
exec_prefix_builtin == <<"builtin::">>

\* modifier.py line 29: _mod_prefix_builtin
mod_prefix_builtin == <<"modifier_", "builtin::">>

\* re.match: the pattern at the start of the name
match(prefix, executable) ==
    Len(executable) >= Len(prefix) /\ SubSeq(executable, 1, Len(prefix)) = prefix

\* re.search: the pattern anywhere in the name
search(prefix, executable) ==
    \E i \in 1..(Len(executable) - Len(prefix) + 1) :
        SubSeq(executable, i, i + Len(prefix) - 1) = prefix

\* the builtin of the application class and the builtin of modifier m
EnvVarsBuiltin == <<"builtin::", "env_vars">>

ModifierBuiltin == <<"modifier_", "builtin::", "m", "::", "f">>

\* an executable of the application whose name holds the prefix further on
OwnBuiltin == <<"my", "builtin::", "z">>

CommandExecutable(template, mpi, redirect) ==
    [template |-> template, mpi |-> mpi, redirect |-> redirect, output_capture |-> ">>"]

\* self.executables: the executables the application defines
Executables ==
    (<<"x">> :> CommandExecutable(<<"x1", "x2">>, FALSE, "x.log"))
    @@ (<<"y">> :> CommandExecutable(<<"y1">>, TRUE, "x.log"))
    @@ (<<"s">> :> CommandExecutable(<<"s1">>, FALSE, "s.log"))
    @@ (OwnBuiltin :> CommandExecutable(<<"z1">>, FALSE, "z.log"))

\* self.builtins: env_vars, registered as required (line 1293) and prepended
Builtins == <<[name |-> EnvVarsBuiltin, required |-> TRUE, injection_method |-> "prepend"]>>

\* lines 356-364: _get_env_set_commands, the lines of shell_modifications
\* for the shell sh that are not empty
get_env_set_commands(var_conf) ==
    [i \in 1..Len(var_conf) |-> <<"export ", var_conf[i][1], "=", var_conf[i][2], ";">>]

\* lines 1295-1348: env_vars. No license is configured, the modifiers of
\* the repository modify no environment variable and the sets of the
\* experiments hold the action set only
env_vars(env_variable_sets) ==
    Flatten([i \in 1..Len(env_variable_sets) |->
                Flatten([j \in 1..Len(env_variable_sets[i]) |->
                            get_env_set_commands(env_variable_sets[i][j][2])])])

\* the commands the builtin methods return
BuiltinCommands(env_variable_sets) ==
    (EnvVarsBuiltin :> env_vars(env_variable_sets)) @@ (ModifierBuiltin :> << <<"f1">> >>)

\* the modifiers of the repository: m registers a required builtin and puts
\* a command before the executable, k puts one before and one after
ModifierClasses ==
    ("m" :> [builtins |-> <<[name |-> ModifierBuiltin, required |-> TRUE,
                             injection_method |-> "prepend"]>>,
             pre |-> <<CommandExecutable(<<"m0">>, FALSE, "")>>,
             post |-> <<>>])
    @@ ("k" :> [builtins |-> <<>>,
                pre |-> <<CommandExecutable(<<"k0">>, TRUE, "")>>,
                post |-> <<CommandExecutable(<<"k1">>, FALSE, "k.log")>>])

\* the references of the modifiers list: a name, and on_executable or <<>>
ModifierPool ==
    { [name |-> "m", on_executable |-> <<>>],
      [name |-> "k", on_executable |-> <<>>],
      [name |-> "k", on_executable |-> << <<"x">> >>] }

\* the chained experiments before and after the experiment
ChainPool == { <<>>, <<"p">>, <<"p", "q">> }

PhaseNames == {"get_inputs", "make_experiments"}

\* modifier.py lines 76-90: set_on_executables
set_on_executables(on_executables) ==
    IF on_executables # <<>> THEN on_executables ELSE << <<"*">> >>

\* lines 592-604: the instance build_modifier_instances makes of a reference
ModifierInstance(mod) ==
    [name |-> mod.name, on_executables |-> set_on_executables(mod.on_executable)]

\* lines 583-606: self._modifier_instances after build_modifier_instances
build_modifier_instances(instances, mods) ==
    instances \o [i \in 1..Len(mods) |-> ModifierInstance(mods[i])]

\* fnmatch.fnmatch of a name and a pattern that is a name or *
fnmatch(executable, pattern) == pattern = <<"*">> \/ pattern = executable

\* modifier.py lines 217-229
applies_to_executable(mod, executable) ==
    \/ \E i \in 1..Len(mod.on_executables) : fnmatch(executable, mod.on_executables[i])
    \/ match(mod_prefix_builtin \o <<mod.name, "::">>, executable)

\* lines 143-146: the required builtins of the instances, each once, with
\* the injection method method
RECURSIVE RequiredBuiltins(_, _, _)
RequiredBuiltins(instances, method, found) ==
    IF instances = <<>> THEN found
    ELSE LET builtins == ModifierClasses[Head(instances).name].builtins
             required == SelectSeq(builtins,
                             LAMBDA b : b.required /\ (b.injection_method = "prepend") = method)
             names == [i \in 1..Len(required) |-> required[i].name]
         IN  RequiredBuiltins(Tail(instances), method,
                              found \o SelectSeq(names, LAMBDA n : n \notin Range(found)))

\* lines 168-177: the executables of a workload after the injection
RECURSIVE InsertedFirst(_, _)
InsertedFirst(executables, prepends) ==
    IF prepends = <<>> THEN executables
    ELSE InsertedFirst(IF Head(prepends) \in Range(executables) THEN executables
                  ELSE <<Head(prepends)>> \o executables,
                  Tail(prepends))

RECURSIVE AppendedLast(_, _)
AppendedLast(executables, appends) ==
    IF appends = <<>> THEN executables
    ELSE AppendedLast(IF Head(appends) \in Range(executables) THEN executables
                  ELSE Append(executables, Head(appends)),
                  Tail(appends))

\* lines 115-130: the executables of a workload after
\* _inject_required_builtins, the required builtins taken from the last
RECURSIVE Injected(_, _)
Injected(executables, required) ==
    IF required = <<>> THEN executables
    ELSE LET builtin == required[Len(required)]
         IN  Injected(IF builtin.name \in Range(executables) THEN executables
                      ELSE IF builtin.injection_method = "prepend"
                      THEN <<builtin.name>> \o executables
                      ELSE Append(executables, builtin.name),
                      Pop(required))

inject_required_builtins(executables) ==
    Injected(executables, SelectSeq(Builtins, LAMBDA builtin : builtin.required))

\* lines 132-177: the executables of the workload after
\* _inject_required_modifier_builtins
inject_required_modifier_builtins(mods, instances, executables) ==
    IF mods = <<>> \/ instances = <<>> THEN executables
    ELSE AppendedLast(InsertedFirst(executables, Reverse(RequiredBuiltins(instances, TRUE, <<>>))),
                  RequiredBuiltins(instances, FALSE, <<>>))

\* lines 132-166: the keys of self._modifier_builtins
ModifierBuiltins(mods, instances, known) ==
    IF mods = <<>> \/ instances = <<>> THEN known
    ELSE known \cup Range(RequiredBuiltins(instances, TRUE, <<>>))
               \cup Range(RequiredBuiltins(instances, FALSE, <<>>))

\* lines 608-625: _get_executables
get_executables(workload, internals) == IF internals # <<>> THEN internals ELSE workload

\* lines 678-682: exec_vars
exec_vars(instances, executable) ==
    [executable_name |-> executable,
     modded |-> LET applied == SelectSeq(instances,
                                   LAMBDA mod : applies_to_executable(mod, executable))
                IN  [i \in 1..Len(applied) |-> applied[i].name]]

NoVars == [executable_name |-> <<>>, modded |-> <<>>]

\* a line of the command: what makes it, its text, and the variables its
\* text is expanded with
CommandLine(kind, text, variables) == [kind |-> kind, text |-> text, vars |-> variables]

\* lines 667-668
PurgeLog(log) ==
    <<CommandLine("rm -f", <<log>>, NoVars), CommandLine("touch", <<log>>, NoVars)>>

\* lines 656, 733: self.chain_commands[chained_exp]
ChainCommand(chained_exp) == CommandLine("chain_commands", <<chained_exp>>, NoVars)

\* lines 689-691, 697-698: the commands of a builtin, expanded
BuiltinLines(func_cmds, variables) ==
    [i \in 1..Len(func_cmds) |-> CommandLine("expand_var", func_cmds[i], variables)]

\* lines 715-729: the parts of the template of cmd_conf, expanded
ConfigLines(cmd_conf, variables) ==
    [i \in 1..Len(cmd_conf.template) |->
        CommandLine("expand_var",
                    (IF cmd_conf.mpi THEN <<" ", "{mpi_command}", " ">> ELSE <<>>)
                    \o <<cmd_conf.template[i]>>
                    \o (IF cmd_conf.redirect # ""
                        THEN <<" ", cmd_conf.output_capture, " \"", cmd_conf.redirect, "\"">>
                        ELSE <<>>),
                    variables)]

\* lines 705-710: pre_commands, or post_commands, of the modifiers that apply
ModifierCommands(instances, executable, pre) ==
    LET applied == SelectSeq(instances, LAMBDA mod : applies_to_executable(mod, executable))
    IN  Flatten([i \in 1..Len(applied) |->
                    IF pre THEN ModifierClasses[applied[i].name].pre
                    ELSE ModifierClasses[applied[i].name].post])

\* lines 712-714: command_configs
command_configs(instances, executable) ==
    ModifierCommands(instances, executable, TRUE)
    \o <<Executables[executable]>>
    \o ModifierCommands(instances, executable, FALSE)

\* lines 674-729: the lines of one executable
ExecutableLines(env_variable_sets, instances, known, executable) ==
    IF match(exec_prefix_builtin, executable)
    THEN IF executable \in DOMAIN BuiltinCommands(env_variable_sets)
         THEN Ok(BuiltinLines(BuiltinCommands(env_variable_sets)[executable],
                              exec_vars(instances, executable)))
         ELSE Raise("AttributeError")
    ELSE IF executable \in known
    THEN Ok(BuiltinLines(BuiltinCommands(env_variable_sets)[executable],
                         exec_vars(instances, executable)))
    ELSE IF executable \notin DOMAIN Executables THEN Raise("KeyError")
    ELSE LET configs == command_configs(instances, executable)
         IN  Ok(Flatten([i \in 1..Len(configs) |->
                            ConfigLines(configs[i], exec_vars(instances, executable))]))

\* lines 671-729: the lines of the executables, in their order
RECURSIVE ExecutionLines(_, _, _, _, _)
ExecutionLines(env_variable_sets, instances, known, executables, command) ==
    IF executables = <<>> THEN Ok(command)
    ELSE LET lines == ExecutableLines(env_variable_sets, instances, known, Head(executables))
         IN  IF IsRaise(lines) THEN lines
             ELSE ExecutionLines(env_variable_sets, instances, known, Tail(executables),
                                 command \o lines.val)

\* lines 661-662: the executable is left out of the purge of the logs
Purged(executable) ==
    ~search(exec_prefix_builtin, executable) /\ ~search(mod_prefix_builtin, executable)

\* lines 658-665: logs, the set of the redirects of the executables
Logs(executables) ==
    { Executables[executables[i]].redirect :
        i \in { j \in 1..Len(executables) :
                  /\ Purged(executables[j])
                  /\ executables[j] \in DOMAIN Executables
                  /\ Executables[executables[j]].redirect # "" } }

\* the orders in which a set is iterated
Orders(S) == { order \in [1..Cardinality(S) -> S] : Range(order) = S }

\* line 736: '\n'.join(command), the newline being a line of its own kind
NewLine == CommandLine("newline", <<>>, NoVars)

RECURSIVE join(_)
join(command) ==
    IF Len(command) <= 1 THEN command
    ELSE <<Head(command), NewLine>> \o join(Tail(command))

\* lines 651-736: the command of _inject_commands, logs being the order in
\* which the set of the logs is iterated
inject_commands(env_variable_sets, prepend, append, instances, known, executables, logs) ==
    LET purge == [i \in 1..Len(prepend) |-> ChainCommand(prepend[i])]
                 \o Flatten([i \in 1..Len(logs) |-> PurgeLog(logs[i])])
        command == ExecutionLines(env_variable_sets, instances, known, executables, purge)
    IN  IF \E j \in 1..Len(executables) :
               Purged(executables[j]) /\ executables[j] \notin DOMAIN Executables
        THEN Raise("KeyError")
        ELSE IF IsRaise(command) THEN command
        ELSE Ok(join(command.val \o [i \in 1..Len(append) |-> ChainCommand(append[i])]))

\* the variables the texts of this part refer to
ExpansionNames ==
    {"experiment_run_dir", "workload_input_dir", "workload_name", "input_name",
     "mpi_command", "executable_name"}

\* expander.py lines 242-246, expansion_str: '{' + in_str + '}' as one piece
expansion_piece(in_str) ==
    CASE in_str = "experiment_run_dir" -> "{experiment_run_dir}"
      [] in_str = "workload_input_dir" -> "{workload_input_dir}"
      [] in_str = "workload_name" -> "{workload_name}"
      [] in_str = "input_name" -> "{input_name}"
      [] in_str = "mpi_command" -> "{mpi_command}"
      [] in_str = "executable_name" -> "{executable_name}"

\* the variables of the bindings a piece refers to
Referred(bindings, piece) ==
    {name \in ExpansionNames : expansion_piece(name) = piece /\ DictHas(bindings, name)}

\* expander.py lines 274-316, _partial_expand with passthrough: a reference
\* to a variable of the bindings becomes the expansion of its value, the
\* other pieces stay. The variables a text refers to are strings.
RECURSIVE partial_expand_text(_, _)
partial_expand_text(bindings, text) ==
    Flatten([i \in 1..Len(text) |->
                IF Referred(bindings, text[i]) = {} THEN <<text[i]>>
                ELSE partial_expand_text(bindings,
                         DictGet(bindings,
                                 CHOOSE name \in Referred(bindings, text[i]) : TRUE).v)])

\* dict.update
RECURSIVE update(_, _)
update(d, other) ==
    IF other = <<>> THEN d
    ELSE update(DictSet(d, Head(other)[1], Head(other)[2]), Tail(other))

\* expander.py lines 203-240, expand_var with passthrough on a text: no
\* text of this part is an expression that eval_math gives a value
expand_text(variables, text, extra_vars) ==
    lstrip(partial_expand_text(update(variables, extra_vars), text))

\* os.path.join of two paths
os_path_join(path, other) ==
    IF other # <<>> /\ Head(other) = os_path_sep THEN other
    ELSE IF path = <<>> \/ path[Len(path)] = os_path_sep THEN path \o other
    ELSE path \o <<os_path_sep>> \o other

\* os.path.basename
RECURSIVE basename(_)
basename(path) ==
    IF path = <<>> \/ path[Len(path)] = os_path_sep THEN <<>>
    ELSE Append(basename(Pop(path)), path[Len(path)])

\* the chain_commands of the experiment: the path of the script of each
\* chained experiment
ChainCommandText(chained_exp) == <<os_path_sep, "c", os_path_sep, chained_exp>>

\* the string of one line of the command
LineText(line, variables) ==
    CASE line.kind = "chain_commands" -> ChainCommandText(line.text[1])
      [] line.kind = "rm -f" -> <<"rm -f \"", line.text[1], "\"">>
      [] line.kind = "touch" -> <<"touch \"", line.text[1], "\"">>
      [] line.kind = "expand_var" ->
            expand_text(variables, line.text,
                        << <<"executable_name", StrValue(line.vars.executable_name)>> >>)
      [] line.kind = "newline" -> <<"\n">>

\* the string of a command
command_text(command, variables) ==
    Flatten([i \in 1..Len(command) |-> LineText(command[i], variables)])

\* the workloads of the application class
Workloads == {<<"w">>}

\* self.workload_variables of the workload: v, of default d
workload_variables == << <<"v", [default |-> StrValue(<<"d">>)]>> >>

\* the inputs of the workload
WorkloadInputs == <<"i">>

\* self.inputs: input i, with the sha256 of its directive or <<>> for None
Inputs(sha256, expand) ==
    << <<"i", [url |-> <<"h", os_path_sep, "u">>, target_dir |-> <<"{input_name}">>,
               sha256 |-> sha256, expand |-> expand]>> >>

\* the text of the name of an input
InputText(input_file) == <<input_file>>

\* lines 746-755: _validate_experiment raises no error
validate_experiment(workload_name) == workload_name \in Workloads

\* lines 640-649
RECURSIVE set_default_experiment_variables(_, _)
set_default_experiment_variables(variables, wl_vars) ==
    IF wl_vars = <<>> THEN variables
    ELSE set_default_experiment_variables(
             IF DictHas(variables, Head(wl_vars)[1]) THEN variables
             ELSE DictSet(variables, Head(wl_vars)[1], Head(wl_vars)[2].default),
             Tail(wl_vars))

\* lines 779-819: the fetcher of an input has the expanded url and the
\* sha256 of the directive as its digest; the url has no extension
inputs_and_fetchers(input_fetchers, variables, inputs) ==
    IF input_fetchers # <<>> THEN input_fetchers
    ELSE [k \in 1..Len(WorkloadInputs) |->
            LET input_file == WorkloadInputs[k]
                input_conf == DictGet(inputs, input_file)
                url == expand_text(variables, input_conf.url, <<>>)
            IN  <<basename(url),
                  [fetcher |-> [digest |-> input_conf.sha256, url |-> url],
                   target_dir |-> input_conf.target_dir,
                   input_name |-> input_file,
                   expand |-> input_conf.expand]>>]

\* lines 631-638: the variables after _set_input_path
RECURSIVE set_input_path(_, _)
set_input_path(variables, input_fetchers) ==
    IF input_fetchers = <<>> THEN variables
    ELSE LET input_file == Head(input_fetchers)[1]
             input_conf == Head(input_fetchers)[2]
             input_vars == << <<"input_name",
                                StrValue(IF input_conf.expand
                                         THEN InputText(input_conf.input_name)
                                         ELSE input_file)>> >>
             input_path ==
                 os_path_join(expand_text(variables, <<expansion_piece("workload_input_dir")>>,
                                          <<>>),
                              expand_text(variables, input_conf.target_dir, input_vars))
         IN  set_input_path(DictSet(variables, input_conf.input_name, StrValue(input_path)),
                            Tail(input_fetchers))

\* lines 738-744: the variables after _derive_variables_for_template_path
RECURSIVE derive_variables_for_template_path(_, _)
derive_variables_for_template_path(variables, templates) ==
    IF templates = <<>> THEN variables
    ELSE LET template_name == Head(templates)[1]
             expand_path ==
                 os_path_join(expand_text(variables, <<expansion_piece("experiment_run_dir")>>,
                                          <<>>),
                              <<template_name>>)
         IN  derive_variables_for_template_path(
                 DictSet(variables, template_name, StrValue(expand_path)), Tail(templates))

\* expander.py lines 77-82: expander.workload_name
workload_name(variables) == expand_text(variables, <<expansion_piece("workload_name")>>, <<>>)

\* lines 768-776: the command, spack_setup and the paths of the templates
WithCommand(located, fetchers, command, workspace) ==
    IF IsRaise(command)
    THEN [err |-> command.val, variables |-> located, input_fetchers |-> fetchers]
    ELSE [err |-> "",
          variables |->
              derive_variables_for_template_path(
                  DictSet(DictSet(located, "command",
                                  StrValue(command_text(command.val, located))),
                          "spack_setup", StrValue(<<>>)),
                  workspace.templates),
          input_fetchers |-> fetchers]

\* lines 767-768: _set_input_path and _inject_commands
WithFetchers(self, defaults, fetchers, workspace, logs) ==
    WithCommand(set_input_path(defaults, fetchers), fetchers,
                inject_commands(self.env_variable_sets, self.chain_prepend, self.chain_append,
                                self.instances, self.known, self.executables, logs),
                workspace)

\* lines 757-777: add_expand_vars where the variables are not expanded yet,
\* on self = [variables, input_fetchers, inputs, env_variable_sets,
\* chain_prepend, chain_append, instances, known, executables]; the error raised, the
\* variables and the fetchers it leaves
add_expand_vars(self, workspace, logs) ==
    IF ~validate_experiment(workload_name(self.variables))
    THEN [err |-> "ApplicationError", variables |-> self.variables,
          input_fetchers |-> self.input_fetchers]
    ELSE WithFetchers(self, set_default_experiment_variables(self.variables, workload_variables),
                      inputs_and_fetchers(self.input_fetchers,
                                          set_default_experiment_variables(self.variables,
                                                                           workload_variables),
                                          self.inputs),
                      workspace, logs)

\* the lists of the executables a workload is declared with, and of internals
ExecutableLists ==
    { << <<"x">> >>,
      << <<"y">> >>,
      << <<"x">>, <<"s">> >>,
      << <<"s">>, <<"x">> >>,
      << <<"x">>, <<"y">> >>,
      << <<"x">>, <<"x">> >>,
      << EnvVarsBuiltin >>,
      << EnvVarsBuiltin, <<"x">> >>,
      << OwnBuiltin >>,
      << <<"x">>, OwnBuiltin >>,
      << ModifierBuiltin, <<"x">> >>,
      << <<"s">>, ModifierBuiltin, <<"x">> >> }

InternalsPool == { <<>>, << <<"s">>, <<"x">> >> }

\* the environment variable sets of the experiment: none, or one that sets V
EnvSetsPool == { <<>>, << << <<"set", << <<"V", "1">> >> >> >> >> }

\* the workspace of the experiment, and self.inputs
PhaseWorkspace == Workspace(<<os_path_sep, "a">>, Templates1(<<"t">>))

PhaseInputs == Inputs(<<"d">>, TRUE)

\* the variables of the experiment: of workload w, with v set or not, or of
\* a workload the application does not define
PhaseVariables(workload, more) ==
    << <<"workload_name", StrValue(workload)>>,
       <<"experiment_run_dir", StrValue(<<os_path_sep, "a", os_path_sep, "1">>)>>,
       <<"workload_input_dir", StrValue(<<os_path_sep, "a", os_path_sep, "in">>)>>,
       <<"mpi_command", StrValue(<<"mpirun">>)>> >> \o more

PhaseVariablesPool ==
    { PhaseVariables(<<"w">>, <<>>),
      PhaseVariables(<<"w">>, << <<"v", StrValue(<<"s">>)>> >>),
      PhaseVariables(<<"u">>, <<>>) }

PhaseInit ==
    /\ ph_pc = "idle"
    /\ ph_err = ""
    /\ ph_modifiers \in SeqsUpTo(ModifierPool, 2)
    /\ modifier_instances = <<>>
    /\ modifier_builtins = {}
    /\ workload_executables \in {inject_required_builtins(declared) : declared \in ExecutableLists}
    /\ internals_executables \in InternalsPool
    /\ \E chain \in ChainPool, k \in 0..2 :
          /\ k <= Len(chain)
          /\ ph_prepend = SubSeq(chain, 1, k)
          /\ ph_append = SubSeq(chain, k + 1, Len(chain))
    /\ ph_template \in BOOLEAN
    /\ ph_env_sets \in EnvSetsPool
    /\ vars_are_expanded = FALSE
    /\ ph_variables \in PhaseVariablesPool
    /\ ph_input_fetchers = <<>>
    /\ ph_ran = ""
    /\ ph_phases = 0

PhaseIdle ==
    /\ ph_pc = "off"
    /\ ph_err = ""
    /\ ph_modifiers = <<>>
    /\ modifier_instances = <<>>
    /\ modifier_builtins = {}
    /\ workload_executables = <<>>
    /\ internals_executables = <<>>
    /\ ph_prepend = <<>>
    /\ ph_append = <<>>
    /\ ph_template = FALSE
    /\ ph_env_sets = <<>>
    /\ vars_are_expanded = FALSE
    /\ ph_variables = <<>>
    /\ ph_input_fetchers = <<>>
    /\ ph_ran = ""
    /\ ph_phases = 0

\* lines 350-354: what add_expand_vars leaves, and the phase run unless the
\* experiment is a template
PhaseExpanded(phase, expanded) ==
    /\ ph_variables' = expanded.variables
    /\ ph_input_fetchers' = expanded.input_fetchers
    /\ ph_err' = expanded.err
    /\ ph_pc' = IF expanded.err = "" THEN "idle" ELSE "error"
    /\ vars_are_expanded' = (expanded.err = "")
    /\ ph_ran' = IF expanded.err = "" /\ ~ph_template THEN phase ELSE ph_ran

\* lines 342-354: run_phase(phase, workspace)
run_phase ==
    /\ ph_pc = "idle"
    /\ ph_phases < MaxPhases
    /\ \E phase \in PhaseNames :
          LET instances == build_modifier_instances(modifier_instances, ph_modifiers)
              known == ModifierBuiltins(ph_modifiers, instances, modifier_builtins)
              workload == inject_required_modifier_builtins(ph_modifiers, instances,
                                                            workload_executables)
              executables == get_executables(workload, internals_executables)
          IN  /\ modifier_instances' = instances
              /\ modifier_builtins' = known
              /\ workload_executables' = workload
              /\ IF vars_are_expanded
                 THEN /\ ph_ran' = IF ph_template THEN ph_ran ELSE phase
                      /\ UNCHANGED <<ph_pc, ph_err, vars_are_expanded, ph_variables,
                                     ph_input_fetchers>>
                 ELSE \E logs \in Orders(Logs(executables)) :
                        PhaseExpanded(phase,
                                      add_expand_vars([variables |-> ph_variables,
                                                       input_fetchers |-> ph_input_fetchers,
                                                       inputs |-> PhaseInputs,
                                                       env_variable_sets |-> ph_env_sets,
                                                       chain_prepend |-> ph_prepend,
                                                       chain_append |-> ph_append,
                                                       instances |-> instances,
                                                       known |-> known,
                                                       executables |-> executables],
                                                      PhaseWorkspace, logs))
    /\ ph_phases' = ph_phases + 1
    /\ UNCHANGED <<ph_modifiers, internals_executables, ph_prepend, ph_append, ph_template,
                   ph_env_sets>>
    /\ UNCHANGED <<chainVars, anVars, exVars, setVars, invVars>>

PhaseNext == run_phase

(***************************************************************************)
(* Inventory: run_phase('write_inventory', workspace) on two application   *)
(* instances, each of an application class and in a workspace of its own.  *)
(* The expander caches the names and the directories it has expanded; the  *)
(* variables they are expanded from do not change.                         *)
(***************************************************************************)
\* the variables of an experiment of a workload in the directory run_dir of
\* a workspace
ExperimentVariables(root, run_dir, workload, more) ==
    << <<"workload_name", StrValue(workload)>>,
       <<"experiment_run_dir", StrValue(root \o <<os_path_sep, run_dir>>)>>,
       <<"workload_input_dir", StrValue(root \o <<os_path_sep, "in">>)>> >> \o more

\* the instance after __init__ (lines 63-100), set_variables, set_modifiers,
\* set_internals, set_env_variable_sets, set_template and
\* set_chained_experiments, of an application class with the workload w of
\* the executable x and the input i
Application(variables, modifiers, sha256, template) ==
    [variables |-> variables, modifiers |-> modifiers,
     chained_experiments |-> JsonNull, internals |-> JsonDict(<<>>),
     env_variable_sets |-> JsonList(<<>>), input_fetchers |-> <<>>,
     inputs |-> Inputs(sha256, TRUE), is_template |-> template,
     vars_are_expanded |-> FALSE, modifier_instances |-> <<>>, modifier_builtins |-> {},
     workload_executables |-> inject_required_builtins(<< <<"x">> >>),
     chain_prepend |-> <<>>, chain_append |-> <<>>]

\* lines 88-94
EmptyInventory == [attributes |-> <<>>, inputs |-> <<>>, software |-> <<>>, templates |-> <<>>]

InventoryInit ==
    /\ inv_pc = "setup"
    /\ \E root1, root2 \in RootPool, digest \in {<<"t">>, <<"u">>} :
          /\ inv_workspace = <<Workspace(root1, Templates1(<<"t">>)),
                               Workspace(root2, Templates1(digest))>>
          /\ \E variables1 \in VariablesIn(root1, {<<"w">>}, {TRUE}),
                variables2 \in VariablesIn(root2, {<<"x">>}, BOOLEAN),
                run_dir \in {"1", "2"},
                modifiers \in {<<>>, <<[name |-> "m", on_executable |-> <<>>]>>},
                sha256 \in {<<"d">>, <<>>},
                workload \in {<<"w">>, <<"u">>},
                template \in BOOLEAN :
                /\ root1 = root2 => run_dir = "2"
                /\ Cardinality({k \in 1..5 : <<digest # <<"t">>, modifiers # <<>>,
                                                sha256 = <<>>, workload # <<"w">>,
                                                template>>[k]}) <= 1
                /\ inv_self = <<Application(ExperimentVariables(root1, "1", <<"w">>, variables1),
                                            modifiers, <<"d">>, FALSE),
                                Application(ExperimentVariables(root2, run_dir, workload,
                                                                variables2),
                                            modifiers, sha256, template)>>
    /\ hash_inventory = [i \in Instances |-> EmptyInventory]
    /\ experiment_hash = [i \in Instances |-> <<>>]
    /\ inv_files = [i \in Instances |-> <<>>]
    /\ inv_writes = [i \in Instances |-> 0]

InventoryIdle ==
    /\ inv_pc = "off"
    /\ inv_workspace = <<>>
    /\ inv_self = <<>>
    /\ hash_inventory = <<>>
    /\ experiment_hash = <<>>
    /\ inv_files = <<>>
    /\ inv_writes = <<>>

\* lines 920-982, _write_inventory: the fetchers, the inventory, the file
\* written and its hash
write_inventory(self, workspace, inventory) ==
    LET experiment_run_dir_ ==
            expand_text(self.variables, <<expansion_piece("experiment_run_dir")>>, <<>>)
        fetchers == inputs_and_fetchers(self.input_fetchers, self.variables, self.inputs)
        appended == Appended(inventory, [self EXCEPT !.input_fetchers = fetchers], workspace,
                             clean_hash_variables(workspace, self.variables))
    IN  [input_fetchers |-> fetchers,
         hash_inventory |-> appended,
         file |-> [path |-> os_path_join(experiment_run_dir_, <<inventory_file_name>>),
                   content |-> dump(appended)],
         experiment_hash |-> hash_file(dump(appended))]

\* lines 342-350: the instance after build_modifier_instances,
\* _inject_required_modifier_builtins and add_expand_vars
Built(self, instances, known, workload, expanded) ==
    [self EXCEPT !.modifier_instances = instances,
                 !.modifier_builtins = known,
                 !.workload_executables = workload,
                 !.variables = expanded.variables,
                 !.input_fetchers = expanded.input_fetchers,
                 !.vars_are_expanded = (expanded.err = "")]

\* lines 351-354: the phase is not run on a template
RunPhaseFunc(i, built, written) ==
    IF built.is_template
    THEN /\ inv_self' = [inv_self EXCEPT ![i] = built]
         /\ UNCHANGED <<inv_pc, hash_inventory, inv_files, experiment_hash>>
    ELSE /\ inv_self' = [inv_self EXCEPT
                           ![i] = [built EXCEPT !.input_fetchers = written.input_fetchers]]
         /\ hash_inventory' = [hash_inventory EXCEPT ![i] = written.hash_inventory]
         /\ inv_files' = [inv_files EXCEPT ![i] = written.file]
         /\ experiment_hash' = [experiment_hash EXCEPT ![i] = written.experiment_hash]
         /\ UNCHANGED inv_pc

Prepared(i, built) ==
    IF ~built.vars_are_expanded
    THEN /\ inv_pc' = "error"
         /\ inv_self' = [inv_self EXCEPT ![i] = built]
         /\ UNCHANGED <<hash_inventory, inv_files, experiment_hash>>
    ELSE RunPhaseFunc(i, built, write_inventory(built, inv_workspace[i], hash_inventory[i]))

Expanded(i, self, instances, known, workload, executables) ==
    IF self.vars_are_expanded
    THEN Prepared(i, Built(self, instances, known, workload,
                           [err |-> "", variables |-> self.variables,
                            input_fetchers |-> self.input_fetchers]))
    ELSE \E logs \in Orders(Logs(executables)) :
            Prepared(i, Built(self, instances, known, workload,
                              add_expand_vars([variables |-> self.variables,
                                               input_fetchers |-> self.input_fetchers,
                                               inputs |-> self.inputs,
                                               env_variable_sets |-> self.env_variable_sets.v,
                                               chain_prepend |-> self.chain_prepend,
                                               chain_append |-> self.chain_append,
                                               instances |-> instances,
                                               known |-> known,
                                               executables |-> executables],
                                              inv_workspace[i], logs)))

WithBuiltins(i, self, instances) ==
    Expanded(i, self, instances,
             ModifierBuiltins(self.modifiers, instances, self.modifier_builtins),
             inject_required_modifier_builtins(self.modifiers, instances,
                                               self.workload_executables),
             get_executables(inject_required_modifier_builtins(self.modifiers, instances,
                                                               self.workload_executables),
                             <<>>))

\* lines 342-354: run_phase('write_inventory', workspace) on instance i
RunWriteInventory(i) ==
    /\ inv_pc = "setup"
    /\ inv_writes[i] < MaxWrites
    /\ WithBuiltins(i, inv_self[i],
                build_modifier_instances(inv_self[i].modifier_instances, inv_self[i].modifiers))
    /\ inv_writes' = [inv_writes EXCEPT ![i] = @ + 1]
    /\ UNCHANGED inv_workspace
    /\ UNCHANGED <<chainVars, anVars, exVars, setVars, phVars>>

InventoryNext == \E i \in Instances : RunWriteInventory(i)

(***************************************************************************)
(* Specifications: one per part; the other parts stay idle                 *)
(***************************************************************************)
ChainSpecInit == ChainInit /\ AnalyzeIdle /\ ExpandIdle /\ SetIdle /\ InventoryIdle /\ PhaseIdle

ChainSpec == ChainSpecInit /\ [][ChainNext]_vars

(***************************************************************************)
(* Log analyzer: the result                                                *)
(***************************************************************************)
\* the variables of the experiment that is analyzed
VariablesPool == {<<"n">> :> <<" ", "1">>}

\* the namespace of the experiment that is analyzed
AnalyzedExperiment == <<"a", ".", "a", ".", "a">>

\* line 1154: self.expander.expand_var(val)
ExpandedVariable(variables, var) ==
    expand_var(AnalyzedExperiment :> variables, AnalyzedExperiment, variables[var], TRUE, {})

\* the mutant: always_print_foms is not read
MutPrintsFoms(success, always_print_foms) == success

\* line 1149
PrintsFoms(success, always_print_foms) == success \/ always_print_foms

\* lines 1152-1154: the variables of the pool, expanded
RambleVariables ==
    [variables \in VariablesPool |->
        [var \in DOMAIN variables |-> ExpandedVariable(variables, var)]]

\* lines 1130-1167: evaluate_success answers evaluated, the workspace has
\* always_print_foms, which line 1149 reads when success is false, and the
\* experiment has variables; an error of expand_var leaves
\* _analyze_experiments before a result is appended
AnalyzeFinish ==
    /\ an_pc = "files"
    /\ an_file = Len(AnalysisFiles(an_conf))
    /\ \E evaluated \in BOOLEAN, always_print_foms \in BOOLEAN, variables \in VariablesPool :
        LET found == criteria_found \cup
                        (IF evaluated THEN {"_application_function"} ELSE {})
            success == fom_values # <<>> /\ CriteriaPassed(an_conf, found)
            head == <<<<"name", "exp_ns">>,
                      <<"EXPERIMENT_CHAIN", <<>>>>,
                      <<"RAMBLE_STATUS", IF success THEN "SUCCESS" ELSE "FAILED">>>>
        IN
        /\ criteria_found' = found
        /\ an_workspace' = IF success THEN an_workspace
                           ELSE [always_print_foms |-> always_print_foms]
        /\ IF ~PrintsFoms(success, always_print_foms)
           THEN results' = head /\ an_pc' = "done"
           ELSE IF \E var \in DOMAIN variables : IsRaise(RambleVariables[variables][var])
           THEN results' = results /\ an_pc' = "error"
           ELSE /\ results' =
                     head \o <<<<"RAMBLE_VARIABLES",
                                 [var \in DOMAIN variables |->
                                     RambleVariables[variables][var].val]>>,
                               <<"RAMBLE_RAW_VARIABLES", variables>>,
                               <<"CONTEXTS", ContextsOf(fom_values)>>>>
                /\ an_pc' = "done"
    /\ UNCHANGED <<an_conf, an_logs, an_file, an_line, active_contexts, fom_values>>
    /\ UNCHANGED <<chainVars, exVars, setVars, invVars, phVars>>

AnalyzeNext ==
    \/ AnalyzeOpen
    \/ AnalyzeLine
    \/ AnalyzeFinish

AnalyzeSpecInit == AnalyzeInit /\ ChainIdle /\ ExpandIdle /\ SetIdle /\ InventoryIdle /\ PhaseIdle

AnalyzeSpec == AnalyzeSpecInit /\ [][AnalyzeNext]_vars

ExpandSpecInit == ExpandInit /\ ChainIdle /\ AnalyzeIdle /\ SetIdle /\ InventoryIdle /\ PhaseIdle

ExpandSpec == ExpandSpecInit /\ [][ExpandNext]_vars

SetSpecInit == SetInit /\ ChainIdle /\ AnalyzeIdle /\ ExpandIdle /\ InventoryIdle /\ PhaseIdle

SetSpec == SetSpecInit /\ [][SetNext]_vars

InventorySpecInit == InventoryInit /\ ChainIdle /\ AnalyzeIdle /\ ExpandIdle /\ SetIdle /\ PhaseIdle

InventorySpec == InventorySpecInit /\ [][InventoryNext]_vars

PhaseSpecInit ==
    PhaseInit /\ ChainIdle /\ AnalyzeIdle /\ ExpandIdle /\ SetIdle /\ InventoryIdle

PhaseSpec == PhaseSpecInit /\ [][PhaseNext]_vars

(***************************************************************************)
(* Chain builder: properties                                               *)
(***************************************************************************)
PosIn(n, seq) == CHOOSE i \in 1..Len(seq) : seq[i] = n

Count(n, seq) == Cardinality({i \in 1..Len(seq) : seq[i] = n})

\* the roots whose chain was built, and their chained experiments
BuiltRoots == {r \in chain_built : chained_experiments[r] # <<>> /\ ~is_template[r]}

ClonesOf(r) == {n \in es_chained : n.parent = r}

\* the order token an entry declares; no `order` key stands for after_root
TokenOf(n) == LET e == chained_experiments[clone_def[n][1]][clone_def[n][2]]
              IN  IF e.order = "none" THEN "after_root" ELSE e.order

\* the experiments above frame j in the traversal: the experiment whose
\* chain the frame's entry belongs to, its own parent, ..., up to the root
RECURSIVE AncestorsOf(_)
AncestorsOf(j) ==
    LET owner == chain_stack[j].def[1] IN
    IF owner = chain_self \/ ~\E i \in 1..(j - 1) : chain_stack[i].name = owner
    THEN {owner, chain_self}
    ELSE {owner} \cup AncestorsOf(CHOOSE i \in 1..(j - 1) :
                                     /\ chain_stack[i].name = owner
                                     /\ \A k \in (i + 1)..(j - 1) : chain_stack[k].name # owner)

\* C1 (as claimed): create_experiment_chain on a non-template root
\* terminates -- its loop never comes back to a configuration it has been
\* in -- and when it returns without an error, the root and every chained
\* copy made for it appear exactly once in the root's chain_order.
C1_ChainTerminatesEachOnce ==
    /\ chain_pc = "loop" => <<chain_stack, classes_in_stack>> \notin chain_visited
    /\ \A r \in BuiltRoots :
          \A n \in {PrimaryName(r)} \cup ClonesOf(r) :
             Count(n, chain_order[PrimaryName(r)]) = 1

\* C2 (as claimed): reaching the root, or an experiment whose own chain is
\* still being traversed (an experiment naming itself included), raises
\* ChainCycleDetectedError: the traversal never holds a frame for such an
\* experiment.
C2_CycleAlwaysRaises ==
    chain_pc = "loop" =>
       \A j \in 1..Len(chain_stack) : chain_stack[j].name \notin AncestorsOf(j)

\* the parts of C3 that do not depend on the tie-break: before_* copies come
\* before the root and after_* (or no order) copies after it; before_chain
\* copies precede before_root copies, after_chain copies follow after_root
\* copies
OrderGroups(r) ==
    LET O == chain_order[PrimaryName(r)]
        root == PosIn(PrimaryName(r), O)
    IN  \A c \in ClonesOf(r) :
          /\ TokenOf(c) \in {"before_chain", "before_root"} => PosIn(c, O) < root
          /\ TokenOf(c) \in {"after_root", "after_chain"} => PosIn(c, O) > root
          /\ \A d \in ClonesOf(r) :
                /\ (TokenOf(c) = "before_chain" /\ TokenOf(d) = "before_root")
                      => PosIn(c, O) < PosIn(d, O)
                /\ (TokenOf(c) = "after_root" /\ TokenOf(d) = "after_chain")
                      => PosIn(c, O) < PosIn(d, O)

\* two copies with the same token, c processed before d
SameToken(r, c, d) ==
    /\ c \in ClonesOf(r) /\ d \in ClonesOf(r)
    /\ TokenOf(c) = TokenOf(d)
    /\ c.chained[1] < d.chained[1]

\* C3 (amended): as OrderGroups; among copies with the same token, the one
\* processed earlier appears earlier for before_root and after_chain, and
\* LATER for before_chain and after_root (each new copy is put next to the
\* start of the chain, or next to the root).
C3_ChainOrderByToken ==
    \A r \in BuiltRoots :
       /\ OrderGroups(r)
       /\ \A c, d \in ClonesOf(r) :
             SameToken(r, c, d) =>
                LET O == chain_order[PrimaryName(r)] IN
                IF TokenOf(c) \in {"before_root", "after_chain"}
                THEN PosIn(c, O) < PosIn(d, O)
                ELSE PosIn(d, O) < PosIn(c, O)

\* C3 (as claimed): among copies with the same token, the one processed
\* earlier always appears earlier.
C3_ChainOrderByDiscovery ==
    \A r \in BuiltRoots :
       /\ OrderGroups(r)
       /\ \A c, d \in ClonesOf(r) :
             SameToken(r, c, d) =>
                PosIn(c, chain_order[PrimaryName(r)]) < PosIn(d, chain_order[PrimaryName(r)])

\* a root was built whose chain holds two after_root copies, one of them
\* from an entry without `order`, and two before_chain copies
C3_Witness ==
    \E r \in BuiltRoots :
       /\ \E c, d \in ClonesOf(r) :
             /\ SameToken(r, c, d) /\ TokenOf(c) = "after_root"
             /\ chained_experiments[clone_def[c][1]][clone_def[c][2]].order = "none"
       /\ Len(chain_order[PrimaryName(r)]) = 3

(***************************************************************************)
(* Log analyzer: properties                                                *)
(***************************************************************************)
\* the lines of the open file read so far
LinesRead == SubSeq(an_logs[CurFile], 1, an_line)

\* the lines read so far that match the regex of context c
MatchesOf(c) == {i \in 1..an_line : LinesRead[i].ctx[c] # NoMatch}

DisplayAt(c, i) ==
    format_context(LinesRead[i].ctx[c], figure_of_merit_contexts[c].output_format)

Max(S) == CHOOSE i \in S : \A j \in S : j <= i

Min(S) == CHOOSE i \in S : \A j \in S : i <= j

\* a FOM of the file is matched by the line just read
FomMatched(f) ==
    /\ an_pc \in {"lines", "files"}
    /\ an_file > 0
    /\ an_line > 0
    /\ f \in Range(FileFoms(an_conf, CurFile))
    /\ LinesRead[an_line].fom[f] # NoMatch
    /\ figures_of_merit(an_conf)[f].group

\* some line of a file that is read holds a value of a FOM of that file
FomCaptured ==
    \E file \in Range(AnalysisFiles(an_conf)), f \in Foms :
        /\ f \in Range(FileFoms(an_conf, file))
        /\ figures_of_merit(an_conf)[f].group
        /\ \E i \in 1..Len(an_logs[file]) : an_logs[file][i].fom[f] # NoMatch

\* C4: an analyzed experiment has RAMBLE_STATUS SUCCESS if and only if at
\* least one FOM value was captured from its log files and every success
\* criterion passed; a context that matched without a FOM does not count
C4_SuccessIffFomCaptured ==
    an_pc = "done" =>
        (DictGet(results, "RAMBLE_STATUS") = "SUCCESS"
            <=> (FomCaptured /\ CriteriaPassed(an_conf, criteria_found)))

\* C5: when a line matches a FOM, its value is recorded, for each context the
\* FOM declares that was activated in the file, under the display value of
\* the most recent match of that context on the same or an earlier line
C5_FomUnderMostRecentContext ==
    \A f \in Foms :
        FomMatched(f) =>
            \A c \in Range(figures_of_merit(an_conf)[f].contexts) :
                MatchesOf(c) # {} =>
                    LET shown == DisplayAt(c, Max(MatchesOf(c))) IN
                    /\ DictHas(fom_values, shown)
                    /\ DictHas(DictGet(fom_values, shown), FomName(f))
                    /\ DictGet(DictGet(fom_values, shown), FomName(f)).value
                          = LinesRead[an_line].fom[f]

\* a FOM is matched after two lines gave different values to one of its contexts
C5_Witness ==
    \E f \in Foms :
        /\ FomMatched(f)
        /\ \E c \in Range(figures_of_merit(an_conf)[f].contexts) :
              \E i, j \in MatchesOf(c) : i < j /\ DisplayAt(c, i) # DisplayAt(c, j)

\* C6 (as amended): across the lines of one log file a later line that matches
\* the regex of a context replaces the active value of the context
C6_LatestOccurrenceWins ==
    (an_pc \in {"lines", "files"} /\ an_file > 0) =>
        \A c \in Contexts :
            IF c \in Range(FileConf(an_conf, CurFile).contexts) /\ MatchesOf(c) # {}
            THEN /\ DictHas(active_contexts, c)
                 /\ DictGet(active_contexts, c) = DisplayAt(c, Max(MatchesOf(c)))
            ELSE ~DictHas(active_contexts, c)

\* C6 (as stated): context activation is earliest-occurrence-wins; a later
\* matching line does not replace the active value of the context
C6_EarliestOccurrenceWins ==
    (an_pc \in {"lines", "files"} /\ an_file > 0) =>
        \A c \in Contexts :
            (c \in Range(FileConf(an_conf, CurFile).contexts) /\ MatchesOf(c) # {})
                => /\ DictHas(active_contexts, c)
                   /\ DictGet(active_contexts, c) = DisplayAt(c, Min(MatchesOf(c)))

\* an active context has been matched by two lines with different values
C6_Witness ==
    /\ an_pc \in {"lines", "files"}
    /\ an_file > 0
    /\ \E c \in Contexts :
        /\ DictHas(active_contexts, c)
        /\ \E i, j \in MatchesOf(c) : i < j /\ DisplayAt(c, i) # DisplayAt(c, j)

(***************************************************************************)
(* Expander: properties                                                    *)
(***************************************************************************)
\* no keyword is found in s, and s is a format string
PlaceholderFree(s) ==
    LET found == all_keywords(s) IN found.keywords = <<>> /\ found.err = ""

Contains(s, part) == \E i \in 1..(Len(s) - Len(part) + 1) : SubSeq(s, i, i + Len(part) - 1) = part

Returned(s) == ex_result.kind = "ok" /\ ex_result.val = s

Raised(errors) == ex_result.kind = "raise" /\ ex_result.val \in errors

SameOutcome(x, y) == x.kind = y.kind /\ x.val = y.val

\* the names of the placeholders of ex_var that the expander does not define
UnboundNames ==
    {name \in Range(all_keywords(ex_var).keywords) : name \notin DOMAIN experiments[ex_self]}

\* C7: expand_var with allow_passthrough False returns a string without a
\* placeholder or raises an error of the expander; with allow_passthrough
\* True it does not raise the error of an unbound placeholder, and every
\* unbound {name} of the string is in what it returns
C7_ExpandsOrExpanderError ==
    ex_pc = "returned" =>
        IF ~ex_passthrough
        THEN \/ ex_result.kind = "ok" /\ PlaceholderFree(ex_result.val)
             \/ Raised(ExpanderErrors)
        ELSE /\ ~Raised({"ExpanderError"})
             /\ ex_result.kind = "ok" =>
                    \A name \in UnboundNames : Contains(ex_result.val, expansion_str(name))

\* what ast.parse and eval_math make of s: a value, or the error raised
Evaluated(s) ==
    LET math_ast == ast_parse(s) IN
    IF ~math_ast.ok THEN Raise("SyntaxError")
    ELSE eval_math(experiments, ex_self, math_ast.node, {})

\* s is "<name> in <namespace>" and the set has no experiment <namespace>
MissingExperiment(s) ==
    LET math_ast == ast_parse(s) IN
    /\ math_ast.ok
    /\ math_ast.node.node = "Compare"
    /\ math_ast.node.ops = <<"In">>
    /\ math_ast.node.left.node = "Name"
    /\ math_ast.node.comparators[1].node = "Attribute"
    /\ LET namespace == ast_attr(math_ast.node.comparators[1]) IN
       ~IsRaise(namespace) /\ namespace.val.v \notin DOMAIN experiments

\* C8: a string without a placeholder that cannot be evaluated is returned
\* unchanged, and only the reference to a missing experiment raises
C8_UnevaluableReturnedUnchanged ==
    (ex_pc = "returned" /\ PlaceholderFree(ex_var) /\ IsRaise(Evaluated(ex_var))) =>
        IF MissingExperiment(ex_var)
        THEN Raised({"RambleSyntaxError"})
        ELSE Returned(ex_var)

\* C9: with v defined as "n in c.c.c", the expansion of {v} is that of {n}
\* in the experiment c.c.c, and RambleSyntaxError without that experiment
C9_CrossReferenceExpands ==
    (/\ ex_pc = "returned"
     /\ ex_var = expansion_str(<<"v">>)
     /\ experiments[ex_self][<<"v">>] = CrossReference) =>
        IF OtherExperiment \in DOMAIN experiments
        THEN SameOutcome(ex_result, expand_var(experiments, OtherExperiment,
                                               expansion_str(<<"n">>), TRUE, {}))
        ELSE Raised({"RambleSyntaxError"})

(***************************************************************************)
(* Experiment set: properties                                              *)
(***************************************************************************)
\* the names rendered by the call collide: with one another, or with the
\* name of an experiment the set had before the call
Collides(call) ==
    \/ \E i, j \in 1..Len(call.rendered) : i # j /\ call.rendered[i] = call.rendered[j]
    \/ \E i \in 1..Len(call.rendered) : call.rendered[i] \in Range(call.order)

\* C10: after any calls of set_application_context, set_workload_context and
\* set_experiment_context no two experiments of the set have the same
\* namespace, and a set_experiment_context whose rendered names collide fails
\* with the error of a name that is not unique and leaves the set as it was
C10_NamesUnique ==
    /\ \A i, j \in 1..Len(experiment_order) :
           i # j => experiment_order[i] # experiment_order[j]
    /\ Range(experiment_order) = DOMAIN experiments
    /\ (set_call.op = "set_experiment_context" /\ Collides(set_call)) =>
           /\ set_pc = "error"
           /\ set_err = "not unique"
           /\ experiment_order = set_call.order
           /\ experiments = set_call.experiments

\* a call failed on the name of an experiment added by a call before it
C10_Witness ==
    /\ set_pc = "error"
    /\ set_err = "not unique"
    /\ set_call.op = "set_experiment_context"
    /\ \E i \in 1..Len(set_call.rendered) : set_call.rendered[i] \in Range(experiment_order)

\* two of the vectors named have different lengths
Unequal(vectors, names) ==
    \E x, y \in names \cap DOMAIN vectors : Len(vectors[x]) # Len(vectors[y])

\* the variables of the explicit zips of the call
InExplicitZip(call) ==
    UNION {Range(call.experiment.zips[i].variables) : i \in 1..Len(call.experiment.zips)}

\* the variables the entries of the matrix of the call name, themselves or
\* through an explicit zip
InMatrix(call) ==
    UNION {IF \E j \in 1..Len(call.experiment.zips) :
                  call.experiment.zips[j].name = call.experiment.matrix[i]
           THEN InExplicitZip(call)
           ELSE {call.experiment.matrix[i]} : i \in 1..Len(call.experiment.matrix)}

\* an explicit zip of the call has vectors of different lengths
ExplicitUnequal(call) ==
    \E i \in 1..Len(call.experiment.zips) :
        Unequal(call.vectors, Range(call.experiment.zips[i].variables))

LengthErrors == {"length mismatch", "length mismatch in zip"}

\* C11, as stated: set_experiment_context fails with a length mismatch when
\* two vectors of one explicit zip, or two of the vectors no explicit zip
\* names, have different lengths
C11_AllOtherVectorsZipped ==
    (/\ set_call.op = "set_experiment_context"
     /\ \/ ExplicitUnequal(set_call)
        \/ Unequal(set_call.vectors, DOMAIN set_call.vectors \ InExplicitZip(set_call))) =>
        set_pc = "error" /\ set_err \in LengthErrors

\* C11: set_experiment_context fails with a length mismatch when two vectors
\* of one explicit zip, or two of the vectors that neither an explicit zip
\* nor the matrix names, have different lengths; so when it succeeds the
\* vectors of every zip have one length
C11_ZipLengthsEqual ==
    (/\ set_call.op = "set_experiment_context"
     /\ \/ ExplicitUnequal(set_call)
        \/ Unequal(set_call.vectors,
                   DOMAIN set_call.vectors \ (InExplicitZip(set_call) \cup InMatrix(set_call)))) =>
        set_pc = "error" /\ set_err \in LengthErrors

\* a call failed on the lengths of an explicit zip
C11_Witness ==
    /\ set_call.op = "set_experiment_context"
    /\ ExplicitUnequal(set_call)
    /\ set_pc = "error"
    /\ set_err = "length mismatch in zip"

\* the length of the zip of the names: that of its vectors, 1 without any
ZipLength(call, names) ==
    IF names \cap DOMAIN call.vectors = {} THEN 1
    ELSE Len(call.vectors[CHOOSE name \in names \cap DOMAIN call.vectors : TRUE])

\* the variables that entry i of the matrix of the call names
MatrixEntry(call, i) ==
    IF \E j \in 1..Len(call.experiment.zips) :
           call.experiment.zips[j].name = call.experiment.matrix[i]
    THEN Range(call.experiment.zips[CHOOSE j \in 1..Len(call.experiment.zips) :
                   call.experiment.zips[j].name = call.experiment.matrix[i]].variables)
    ELSE {call.experiment.matrix[i]}

\* |z_1| * ... * |z_k| of the first k entries of the matrix of the call
RECURSIVE MatrixSize(_, _)
MatrixSize(call, k) ==
    IF k = 0 THEN 1 ELSE MatrixSize(call, k - 1) * ZipLength(call, MatrixEntry(call, k))

\* the experiments the call added to the set
Added(call) == SubSeq(experiment_order, Len(call.order) + 1, Len(experiment_order))

Succeeded(call) == call.op = "set_experiment_context" /\ set_pc = "open"

\* C12: with one matrix and no exclusion, set_experiment_context adds one
\* experiment for every tuple of the product of the entries of the matrix,
\* with every position of the zip of the vectors left: |z_1| * ... * |z_k| * L
C12_MatrixProduct ==
    (/\ Succeeded(set_call)
     /\ set_call.experiment.matrix # <<>>
     /\ set_call.experiment.exclude = NoExclude) =>
        /\ Len(Added(set_call)) =
               MatrixSize(set_call, Len(set_call.experiment.matrix))
                   * ZipLength(set_call, DOMAIN set_call.vectors \ InMatrix(set_call))
        /\ Cardinality(Range(Added(set_call))) = Len(Added(set_call))
        /\ \A i \in 1..Len(set_call.universe) :
               \E j \in 1..Len(set_call.rendered) :
                   /\ set_call.rendered[j] \in Range(Added(set_call))
                   /\ experiments[set_call.rendered[j]] = set_call.universe[i]

\* a matrix of one entry of length 2 with an implicit zip of length 3
C12_Witness ==
    /\ Succeeded(set_call)
    /\ Len(set_call.experiment.matrix) = 1
    /\ set_call.experiment.exclude = NoExclude
    /\ DOMAIN set_call.vectors \ InMatrix(set_call) # {}
    /\ Len(Added(set_call)) = 6

\* the exclusion by variables matches the tuple: the values of the names of
\* its matrix are any of those listed, the values of the other names are
\* those listed at one position
Matches(tuple, exclude) ==
    LET listed == exclude.variables
        multiplied == Range(exclude.matrix)
        zipped == DOMAIN listed \ multiplied
    IN  /\ DOMAIN listed # {}
        /\ DOMAIN listed \subseteq DOMAIN tuple
        /\ \A name \in multiplied : tuple[name] \in Range(listed[name])
        /\ \/ zipped = {}
           \/ \E p \in 1..ZipLength([vectors |-> listed], zipped) :
                  \A name \in zipped : tuple[name] = listed[name][p]

\* a predicate of where expands to True with the bindings of the tuple
Truthy(tuple, where) ==
    \E k \in 1..Len(where) : RenderName(where[k], tuple) = Ok(TrueName)

\* C13: of the tuples of the render universe of a call that succeeds, the
\* experiments are those that no predicate of where is true of and that no
\* exclusion by variables matches
C13_ExcludedIffMatched ==
    Succeeded(set_call) =>
        \A i \in 1..Len(set_call.universe) :
            set_call.rendered[i] \in Range(Added(set_call))
                <=> ~(\/ Matches(set_call.universe[i], set_call.experiment.exclude)
                      \/ Truthy(set_call.universe[i], set_call.experiment.exclude.where))

\* one tuple is matched by the variables, one is taken out by where alone,
\* and one is kept
C13_Witness ==
    /\ Succeeded(set_call)
    /\ \E i, j, k \in 1..Len(set_call.universe) :
          /\ Matches(set_call.universe[i], set_call.experiment.exclude)
          /\ ~Matches(set_call.universe[j], set_call.experiment.exclude)
          /\ Truthy(set_call.universe[j], set_call.experiment.exclude.where)
          /\ set_call.rendered[k] \in Range(Added(set_call))
          /\ set_call.rendered[i] \notin DOMAIN experiments
          /\ set_call.rendered[j] \notin DOMAIN experiments

\* C14: every chain entry create_experiment_chain processes for a root adds
\* one chained experiment <root>.chain.<idx>.<child> to the set, with the
\* run directory <root run dir>/chained_experiments/<idx>.<child>, idx
\* counting the entries processed from 0; the primary experiments keep
\* their names and run directories
C14_OneCloneEachEntry ==
    /\ \A r \in Exps :
          /\ Cardinality(ClonesOf(r)) = Len(chain_closed[r])
          /\ \A k \in 1..Len(chain_closed[r]) :
                /\ ChainedName(r, k - 1, chain_closed[r][k]) \in es_chained
                /\ experiment_run_dir[ChainedName(r, k - 1, chain_closed[r][k])]
                      = RunDir(r) \o <<"chained_experiments", <<k - 1, chain_closed[r][k]>> >>
    /\ \A e \in Exps :
          /\ PrimaryName(e) \in DOMAIN experiment_run_dir \ es_chained
          /\ experiment_run_dir[PrimaryName(e)] = RunDir(e)

\* a root built with two chained experiments, one of them reached through
\* the chain of its child
C14_Witness ==
    \E r \in BuiltRoots :
        /\ Len(chain_closed[r]) = 2
        /\ \E n \in ClonesOf(r) : clone_def[n][1] # r

\* C15: once create_experiment_chain returned for a root, the chain_order of
\* the root is chain_prepend, the root, chain_append, and every chained
\* experiment registered for the root holds the same chain_order
C15_ChainOrderPropagated ==
    \A r \in BuiltRoots :
        /\ chain_order[PrimaryName(r)]
              = chain_prepend[r] \o <<PrimaryName(r)>> \o chain_append[r]
        /\ \A n \in ClonesOf(r) : chain_order[n] = chain_order[PrimaryName(r)]

\* a root built with a chained experiment before it and one after it
C15_Witness ==
    \E r \in BuiltRoots :
        /\ chain_prepend[r] # <<>>
        /\ chain_append[r] # <<>>
        /\ \A n \in ClonesOf(r) : Len(chain_order[n]) = 3

\* C16 (as claimed): create_experiment_chain on a root whose chain has an
\* entry without name, without command or with an order that is none of
\* the four ends with InvalidChainError
C16_InvalidEntryRaises ==
    \A r \in Exps :
        (/\ ~is_template[r]
         /\ r \in chain_built \/ (chain_pc = "error" /\ chain_self = r)
         /\ \E k \in 1..Len(chained_experiments[r]) :
                EntryInvalid(chained_experiments[r][k]))
            => (chain_pc = "error" /\ chain_self = r /\ chain_err = "InvalidChainError")

\* the display values of the contexts FOM f declares that a line read so
\* far has activated
ActiveDisplays(f) ==
    {DisplayAt(c, Max(MatchesOf(c))) :
        c \in {d \in Range(figures_of_merit(an_conf)[f].contexts) : MatchesOf(d) # {}}}

\* the value of FOM f under the context is that of the line just read
RecordedUnder(f, context) ==
    /\ DictHas(fom_values, context)
    /\ DictHas(DictGet(fom_values, context), FomName(f))
    /\ DictGet(DictGet(fom_values, context), FomName(f)).value = LinesRead[an_line].fom[f]

\* a context FOM f declares has matched no line read so far
SomeInactive(f) ==
    \E c \in Range(figures_of_merit(an_conf)[f].contexts) : MatchesOf(c) = {}

\* the line the next step reads
NextLine == an_logs[CurFile][an_line + 1]

\* the line holds a value of FOM f of the open file
Captures(f, line) ==
    /\ f \in Range(FileFoms(an_conf, CurFile))
    /\ line.fom[f] # NoMatch
    /\ figures_of_merit(an_conf)[f].group

FomDeclares(f) == Range(figures_of_merit(an_conf)[f].contexts)

\* the display values of the active contexts FOM f declares
ActiveNames(f, active) ==
    {DictGet(active, c) : c \in {d \in FomDeclares(f) : DictHas(active, d)}}

\* what the values hold of FOM f under the context, a list of one record at most
RecordOf(values, f, context) ==
    IF DictHas(values, context) /\ DictHas(DictGet(values, context), FomName(f))
    THEN <<DictGet(DictGet(values, context), FomName(f))>>
    ELSE <<>>

\* the contexts a step may record under
RecordContexts(f, active, values) ==
    Range(DictKeys(values)) \cup ActiveNames(f, active) \cup {NullContext}

\* what is recorded of a FOM of the application whose regex captured value
FomValue(value) ==
    [value |-> value, units |-> "", origin |-> application_name, origin_type |-> "application"]

\* C17, as stated: a line that captures a FOM records it under the display
\* value of every active context the FOM declares, under null if and only
\* if no context it declares is active, and under nothing else
C17_NullIffNoneActive ==
    [][(an_pc = "lines" /\ an_line' = an_line + 1) =>
        \A f \in {g \in Foms : Captures(g, NextLine)} :
            \A context \in RecordContexts(f, active_contexts', fom_values') :
                IF \/ context \in ActiveNames(f, active_contexts')
                   \/ context = NullContext /\ ActiveNames(f, active_contexts') = {}
                THEN RecordOf(fom_values', f, context)
                         = <<FomValue(NextLine.fom[f])>>
                ELSE RecordOf(fom_values', f, context) = RecordOf(fom_values, f, context)]_vars

\* C17: a line that captures a FOM records it under the display value of
\* every active context the FOM declares, under null if and only if the FOM
\* declares no context or a context it declares is not active, and under
\* nothing else
C17_NullIffSomeInactive ==
    [][(an_pc = "lines" /\ an_line' = an_line + 1) =>
        \A f \in {g \in Foms : Captures(g, NextLine)} :
            \A context \in RecordContexts(f, active_contexts', fom_values') :
                IF \/ context \in ActiveNames(f, active_contexts')
                   \/ /\ context = NullContext
                      /\ \/ FomDeclares(f) = {}
                         \/ \E c \in FomDeclares(f) : ~DictHas(active_contexts', c)
                THEN RecordOf(fom_values', f, context)
                         = <<FomValue(NextLine.fom[f])>>
                ELSE RecordOf(fom_values', f, context) = RecordOf(fom_values, f, context)]_vars

\* a FOM is captured while one of the two contexts it declares is active
C17_Witness ==
    \E f \in Foms :
        /\ FomMatched(f)
        /\ ActiveDisplays(f) # {}
        /\ SomeInactive(f)
        /\ RecordedUnder(f, NullContext)
        /\ \A shown \in ActiveDisplays(f) : RecordedUnder(f, shown)

ResultKeys == {"RAMBLE_VARIABLES", "RAMBLE_RAW_VARIABLES", "CONTEXTS"}

\* C18: the result appended for an experiment has name, EXPERIMENT_CHAIN
\* and a RAMBLE_STATUS of SUCCESS or FAILED; it has RAMBLE_VARIABLES,
\* RAMBLE_RAW_VARIABLES and CONTEXTS if and only if the status is SUCCESS or
\* the workspace has always_print_foms
C18_ResultKeys ==
    an_pc = "done" =>
        /\ \A key \in {"name", "EXPERIMENT_CHAIN", "RAMBLE_STATUS"} : DictHas(results, key)
        /\ DictGet(results, "RAMBLE_STATUS") \in {"SUCCESS", "FAILED"}
        /\ \A key \in ResultKeys :
              DictHas(results, key)
                  <=> \/ DictGet(results, "RAMBLE_STATUS") = "SUCCESS"
                      \/ an_workspace.always_print_foms

\* a result of status FAILED with the FOMs, the variables expanded
C18_Witness ==
    /\ an_pc = "done"
    /\ DictGet(results, "RAMBLE_STATUS") = "FAILED"
    /\ an_workspace.always_print_foms
    /\ \A key \in ResultKeys : DictHas(results, key)
    /\ DictGet(results, "RAMBLE_VARIABLES") # DictGet(results, "RAMBLE_RAW_VARIABLES")

(***************************************************************************)
(* Expander: strings that are fully expanded                               *)
(***************************************************************************)
NoBrace(s) == \A i \in 1..Len(s) : s[i] \notin {"{", "}"}

\* s is not evaluated: it is no expression, or eval_math rejects it with an
\* error that lines 229-232 catch (SyntaxError is what lines 469, 504-506 and
\* 519-522 raise)
Unevaluated(s) ==
    /\ IsRaise(Evaluated(s))
    /\ Evaluated(s).val \in {"SyntaxError", "MathEvaluationError"}

\* C19, as stated: expand_var returns a string without a placeholder as it is
C19_FullyExpandedUnchanged ==
    (ex_pc = "returned" /\ PlaceholderFree(ex_var)) => Returned(ex_var)

\* C19: expand_var returns as it is a string that has no brace, does not
\* start with a blank and is not evaluated as an expression
C19_UnevaluatedUnchanged ==
    (/\ ex_pc = "returned"
     /\ NoBrace(ex_var)
     /\ lstrip(ex_var) = ex_var
     /\ Unevaluated(ex_var)) => Returned(ex_var)

\* an expression that eval_math rejects was returned as it is
C19_Witness ==
    /\ ex_pc = "returned"
    /\ NoBrace(ex_var)
    /\ lstrip(ex_var) = ex_var
    /\ ast_parse(ex_var).ok
    /\ Unevaluated(ex_var)
    /\ Returned(ex_var)

(***************************************************************************)
(* Inventory: properties                                                   *)
(***************************************************************************)
Root(i) == inv_workspace[i].root \o <<os_path_sep>>

\* the string without the root of the workspace at its start
StripPrefix(s, root) ==
    IF Len(s) >= Len(root) /\ SubSeq(s, 1, Len(root)) = root
    THEN SubSeq(s, Len(root) + 1, Len(s))
    ELSE s

\* the items of the variables of instance i but workspace_name
Bound(i) ==
    {inv_self[i].variables[k] :
        k \in {j \in 1..Len(inv_self[i].variables) :
                  inv_self[i].variables[j][1] # "workspace_name"}}

\* the variables of instance i, workspace_name deleted and the root of its
\* workspace stripped from the start of the strings
PrefixStripped(i) ==
    {<<item[1], IF item[2].t = "str" THEN StrValue(StripPrefix(item[2].v, Root(i)))
                ELSE item[2]>> : item \in Bound(i)}

\* the variables of instance i, workspace_name deleted and the root of its
\* workspace taken out of the strings wherever it is
RootRemoved(i) ==
    {<<item[1], IF item[2].t = "str" THEN StrValue(replace(item[2].v, Root(i), <<>>))
                ELSE item[2]>> : item \in Bound(i)}

\* the other attributes, the templates and the inputs are the same
SameAttributes ==
    /\ \A attr \in {"modifiers", "chained_experiments", "internals", "env_variable_sets",
                     "input_fetchers"} : inv_self[1][attr] = inv_self[2][attr]
    /\ inv_workspace[1].templates = inv_workspace[2].templates

\* the phase has run on both instances, as many times on each, and has
\* written the inventory of both
BothWritten ==
    /\ inv_pc = "setup"
    /\ inv_writes[1] > 0
    /\ inv_writes[1] = inv_writes[2]
    /\ \A i \in Instances : ~inv_self[i].is_template

SameInventory ==
    /\ inv_files[1].content = inv_files[2].content
    /\ experiment_hash[1] = experiment_hash[2]

\* C20, as stated: two experiments whose attributes, templates and inputs
\* are the same once workspace_name is deleted and the root of the
\* workspace is stripped from the start of the variables get the same
\* inventory document and the same hash
C20_SameOncePrefixStripped ==
    (BothWritten /\ SameAttributes /\ PrefixStripped(1) = PrefixStripped(2)) => SameInventory

\* C20: two experiments whose attributes, templates and inputs are the same
\* once workspace_name is deleted and the root of the workspace is taken out
\* of the strings of the variables, wherever it is in them, get the same
\* inventory document and the same hash
C20_SameOnceRootRemoved ==
    (BothWritten /\ SameAttributes /\ RootRemoved(1) = RootRemoved(2)) => SameInventory

\* two experiments in workspaces of two roots and two names, the variables
\* set in two orders, n and the paths of the experiment being under the
\* root, have one hash
C20_Witness ==
    /\ BothWritten
    /\ inv_workspace[1].root # inv_workspace[2].root
    /\ \A i \in Instances : DictHas(inv_self[i].variables, "workspace_name")
    /\ DictGet(inv_self[1].variables, "workspace_name")
           # DictGet(inv_self[2].variables, "workspace_name")
    /\ DictKeys(inv_self[1].variables) # DictKeys(inv_self[2].variables)
    /\ \A i \in Instances :
          \A name \in {"n", "experiment_run_dir", "workload_input_dir", "i",
                        "execute_experiment"} :
             /\ DictGet(inv_self[i].variables, name).t = "str"
             /\ StripPrefix(DictGet(inv_self[i].variables, name).v, Root(i))
                   # DictGet(inv_self[i].variables, name).v
    /\ DictHas(inv_self[1].variables, "command")
    /\ SameAttributes
    /\ SameInventory

(***************************************************************************)
(* Expander: chained comparisons                                           *)
(***************************************************************************)
IsNumber(node) == node.node = "Constant" /\ node.value.t \in {"int", "float"}

\* the operands of a comparison, from left to right
Operands(node) == <<node.left>> \o node.comparators

\* s is a op1 b op2 c ... over numbers, with two operators or more
NumericChain(s) ==
    LET math_ast == ast_parse(s) IN
    /\ math_ast.ok
    /\ math_ast.node.node = "Compare"
    /\ Len(math_ast.node.ops) > 1
    /\ \A i \in 1..Len(math_ast.node.ops) : math_ast.node.ops[i] \in {"Lt", "Gt"}
    /\ \A i \in 1..Len(Operands(math_ast.node)) : IsNumber(Operands(math_ast.node)[i])

\* the comparison of the operands i and i + 1 of node
Pairwise(node, i) ==
    IF node.ops[i] = "Lt"
    THEN NumLess(ToFloat(Operands(node)[i].value), ToFloat(Operands(node)[i + 1].value))
    ELSE NumLess(ToFloat(Operands(node)[i + 1].value), ToFloat(Operands(node)[i].value))

\* the conjunction of the pairwise comparisons of the chain s
Conjunction(s) ==
    LET node == ast_parse(s).node IN \A i \in 1..Len(node.ops) : Pairwise(node, i)

\* C21: a chained comparison over numbers expands to the conjunction of its
\* pairwise comparisons: 1 < 2 < 3 gives True and 1 < 3 < 2 gives False
C21_ChainIsConjunction ==
    (ex_pc = "returned" /\ NumericChain(ex_var)) =>
        /\ ~IsRaise(ex_result)
        /\ ex_result.val = IF Conjunction(ex_var) THEN TrueName ELSE FalseName

\* what the code does: the chain comes back as it was written
C21_ChainUnchanged ==
    (ex_pc = "returned" /\ NumericChain(ex_var)) => Returned(lstrip(ex_var))
(***************************************************************************)
(* Expander: and, or                                                       *)
(***************************************************************************)
\* bool(value) of a number
Truth(value) == IF value.t = "float" THEN value.v.n # 0 ELSE value.v # 0

\* the operand decides the connective: a false one "and", a true one "or"
Decides(op, value) == IF op = "And" THEN ~Truth(value) ELSE Truth(value)

IsNumeral(node) == node.node = "Constant" /\ node.value.t \in {"int", "float", "bool"}

\* the operands are numbers up to the one that decides, or all of them
RECURSIVE NumbersUntilDecided(_, _)
NumbersUntilDecided(op, values) ==
    /\ IsNumeral(Head(values))
    /\ \/ Len(values) = 1
       \/ Decides(op, Head(values).value)
       \/ NumbersUntilDecided(op, Tail(values))

\* the value of the connective: that of the operand that decides, or else
\* that of the last operand
RECURSIVE Connective(_, _)
Connective(op, values) ==
    IF Len(values) = 1 \/ Decides(op, Head(values).value) THEN Head(values).value
    ELSE Connective(op, Tail(values))

\* s is a connective of numbers up to the operand that decides
DecidedConnective(s) ==
    LET math_ast == ast_parse(s) IN
    /\ math_ast.ok
    /\ math_ast.node.node = "BoolOp"
    /\ NumbersUntilDecided(math_ast.node.op, math_ast.node.values)

\* C22: and, or give the value of the logical connective, and the operands
\* after the one that decides are not evaluated and cannot fail
C22_ShortCircuit ==
    (ex_pc = "returned" /\ DecidedConnective(ex_var)) =>
        /\ ~IsRaise(ex_result)
        /\ ex_result.val = str(Connective(ast_parse(ex_var).node.op,
                                          ast_parse(ex_var).node.values)).val
(***************************************************************************)
(* Expander: calls                                                         *)
(***************************************************************************)
RangeName == <<"r", "a", "n", "g", "e">>

\* s is the call of a name, without placeholder
NamedCall(s) ==
    LET math_ast == ast_parse(s) IN
    /\ PlaceholderFree(s)
    /\ math_ast.ok
    /\ math_ast.node.node = "Call"
    /\ math_ast.node.func.node = "Name"

CalledName(s) == ast_parse(s).node.func.id

\* the value is that of list(range(...)) on the arguments of the call s
IsRangeList(value, s) ==
    LET args == EvalArgs(experiments, ex_self, ast_parse(s).node.args, <<>>, {}) IN
    /\ ~IsRaise(args)
    /\ ~IsRaise(range(args.val))
    /\ value = str(range(args.val).val).val

\* C23: the call of range gives the list of the range; the call of another
\* name is an evaluation failure and gives no value that is substituted
C23_OnlyRangeYieldsValue ==
    (ex_pc = "returned" /\ NamedCall(ex_var)) =>
        IF CalledName(ex_var) = RangeName
        THEN IsRaise(ex_result) \/ IsRangeList(ex_result.val, ex_var)
        ELSE IsRaise(ex_result) \/ Returned(ex_var)

(***************************************************************************)
(* Expander: the bindings across calls                                     *)
(***************************************************************************)
Placeholder(name) == <<"{">> \o name \o <<"}">>

\* the call of expand_var that returned was given a definition of the
\* variable it expands, the definition being a number
ExtraDecides ==
    /\ ex_pc = "extra"
    /\ \E name \in DOMAIN ex_extra :
          ex_var = Placeholder(name) /\ isdigit(ex_extra[name])

\* extra_vars take precedence over the bindings in the call they are given to
ExtraPrecedence ==
    ExtraDecides =>
        \A name \in DOMAIN ex_extra :
            ex_var = Placeholder(name) => Returned(ex_extra[name])

\* C25: expand_var and expand_lists, and eval_math in them, leave the
\* bindings of the expander unchanged; the extra_vars of a call take
\* precedence over the bindings in that call, and the call that follows is
\* answered from the bindings alone.
C25_BindingsUnchanged ==
    [][/\ experiments' = experiments
       /\ ExtraPrecedence'
       /\ ex_pc' = "later" =>
              ex_result' = expand_var(experiments, ex_self, ex_var', ex_passthrough', {})]_vars

\* a call without extra_vars returned the binding of n, after a call that
\* was given another definition of n
C25_Witness ==
    /\ ex_pc = "later"
    /\ ex_var = Placeholder(<<"n">>)
    /\ <<"n">> \in DOMAIN experiments[ex_self]
    /\ Returned(experiments[ex_self][<<"n">>])

\* a call returned the definition of n it was given, not the binding
C25_WitnessExtra ==
    /\ ExtraDecides
    /\ ex_var = Placeholder(<<"n">>)
    /\ <<"n">> \in DOMAIN experiments[ex_self]
    /\ ~Returned(experiments[ex_self][<<"n">>])

\* expand_lists returned a list
C25_WitnessLists == ex_pc = "listed" /\ ex_result.kind = "list"

(***************************************************************************)
(* Expander: definitions that refer to themselves                          *)
(***************************************************************************)
\* the calls of expand_var that are over
Called_expand_var == ex_pc \in {"returned", "extra", "later"}

\* the variables expand_var expanded with
CallVariables == expansions(experiments[ex_self], ex_extra)

\* name is defined by way of itself: by its own placeholder, or by the
\* placeholder of a variable that is defined by the placeholder of name
SelfDefined(variables, name) ==
    /\ name \in DOMAIN variables
    /\ \/ variables[name] = Placeholder(name)
       \/ \E other \in DOMAIN variables :
              /\ variables[name] = Placeholder(other)
              /\ variables[other] = Placeholder(name)

\* C26: expand_var terminates, also when it expands a variable that is
\* defined by way of itself: the recursion of _partial_expand ends and the
\* call does not run out of stack.
C26_Terminates ==
    (/\ Called_expand_var
     /\ \E name \in DOMAIN CallVariables :
            ex_var = Placeholder(name) /\ SelfDefined(CallVariables, name)) =>
        ~(IsRaise(ex_result) /\ ex_result.val = "RecursionError")

(***************************************************************************)
(* Application instance: the command injected                              *)
(***************************************************************************)
\* the executables add_expand_vars resolved
ResolvedExecutables == get_executables(workload_executables, internals_executables)

\* a builtin executable: a name of the form builtin::<func> or
\* modifier_builtin::<modifier>::<func>
IsBuiltinName(executable) ==
    match(exec_prefix_builtin, executable) \/ match(mod_prefix_builtin, executable)

\* the redirect targets of the executables that are no builtins
RedirectTargets(executables) ==
    { Executables[executables[i]].redirect :
        i \in { j \in 1..Len(executables) :
                  /\ ~IsBuiltinName(executables[j])
                  /\ executables[j] \in DOMAIN Executables
                  /\ Executables[executables[j]].redirect # "" } }

\* the lines of the executables in their order, under the modifier
\* instances of the first phase
ExecutableCommands ==
    ExecutionLines(ph_env_sets, build_modifier_instances(<<>>, ph_modifiers), modifier_builtins,
                   ResolvedExecutables, <<>>).val

\* the command is made of the four groups in their order, the logs being
\* purged in the order logs
InOrder(logs) ==
    DictGet(ph_variables, "command").v =
        command_text(
            join([i \in 1..Len(ph_prepend) |-> ChainCommand(ph_prepend[i])]
                 \o Flatten([i \in 1..Len(logs) |-> PurgeLog(logs[i])])
                 \o ExecutableCommands
                 \o [i \in 1..Len(ph_append) |-> ChainCommand(ph_append[i])]),
            ph_variables)

\* C24: the command is the lines, joined by newlines, of the chain_prepend
\* children in their order, then rm -f and touch of each distinct redirect
\* target of the executables that are no builtins, then the commands of
\* the executables in the resolved order, then the lines of the
\* chain_append children in their order.
C24_CommandOrder ==
    vars_are_expanded => \E logs \in Orders(RedirectTargets(ResolvedExecutables)) : InOrder(logs)

\* the search and the match of the prefixes agree on the executables
NamesAgree ==
    \A i \in 1..Len(ResolvedExecutables) :
        Purged(ResolvedExecutables[i]) = ~IsBuiltinName(ResolvedExecutables[i])

\* the order holds where no executable holds a prefix further on in its name
C24_OrderWhereNamesAgree ==
    (vars_are_expanded /\ NamesAgree) =>
        \E logs \in Orders(RedirectTargets(ResolvedExecutables)) : InOrder(logs)

\* a command with both chains, two logs purged and a modifier around x
C24_Reached ==
    /\ vars_are_expanded
    /\ NamesAgree
    /\ ph_prepend # <<>> /\ ph_append # <<>>
    /\ Cardinality(RedirectTargets(ResolvedExecutables)) = 2
    /\ \E i \in 1..Len(ph_modifiers) : ph_modifiers[i].name = "k"

(***************************************************************************)
(* Application instance: the modifier instances                            *)
(***************************************************************************)
\* C27: however many phases run_phase has run, the experiment holds one
\* modifier instance for each reference of its modifiers list.
C27_OneInstancePerReference ==
    ph_phases > 0 =>
        modifier_instances =
            [i \in 1..Len(ph_modifiers) |-> ModifierInstance(ph_modifiers[i])]

\* the instances are those of the references, once for each call of
\* run_phase
C27_InstancesPerPhase ==
    ph_pc # "off" =>
        /\ Len(modifier_instances) = ph_phases * Len(ph_modifiers)
        /\ \A i \in 1..Len(modifier_instances) :
               modifier_instances[i] =
                   ModifierInstance(ph_modifiers[((i - 1) % Len(ph_modifiers)) + 1])

(***************************************************************************)
(* Chain builder: what a chain leaves as it was                            *)
(***************************************************************************)
\* the variables of the primary experiments are left as they were
BaseVariablesKept ==
    \A e \in Exps :
        experiment_run_dir'[PrimaryName(e)] = experiment_run_dir[PrimaryName(e)]

\* C28: building the chain of a root leaves the chain entries of every
\* experiment, their commands among them, and the variables of every
\* primary experiment as they were.
C28_ChainLeavesEntries ==
    [][chained_experiments' = chained_experiments /\ BaseVariablesKept]_vars

\* the variables of the primary experiments are left as they were
C28_BaseVariablesKept == [][BaseVariablesKept]_vars

\* the command of a chained experiment is the path of execute_experiment in
\* its own run directory, whatever chains were built before
C28_CommandOfOwnCopy ==
    \A n \in DOMAIN chain_commands :
        chain_commands[n] = experiment_run_dir[n] \o <<"execute_experiment">>


(***************************************************************************)
(* Log analyzer: a FOM captured more than once, and the files of a run     *)
(***************************************************************************)
\* the file read at place k of the run
FileAt(k) == AnalysisFiles(an_conf)[k]

\* the lines read so far: <<k, i>> is line i of the file read at place k
ReadSoFar ==
    {p \in (1..Len(AnalysisFiles(an_conf))) \X (1..MaxLines) :
        \/ p[1] < an_file /\ p[2] <= Len(an_logs[FileAt(p[1])])
        \/ p[1] = an_file /\ p[2] <= an_line}

LineAt(p) == an_logs[FileAt(p[1])][p[2]]

Before(p, q) == p[1] < q[1] \/ (p[1] = q[1] /\ p[2] < q[2])

Last(S) == CHOOSE p \in S : \A q \in S : q = p \/ Before(q, p)

\* the lines of the file of line p, up to p, that the regex of context c matches
ActivationsAt(c, p) ==
    {i \in 1..p[2] :
        /\ an_logs[FileAt(p[1])][i].ctx[c] # NoMatch
        /\ c \in Range(FileConf(an_conf, FileAt(p[1])).contexts)}

\* the display values a value of FOM f on line p belongs under
TagsAt(f, p) ==
    IF FomDeclares(f) = {} THEN {NullContext}
    ELSE {IF ActivationsAt(c, p) # {}
          THEN format_context(an_logs[FileAt(p[1])][Max(ActivationsAt(c, p))].ctx[c],
                              figure_of_merit_contexts[c].output_format)
          ELSE NullContext : c \in FomDeclares(f)}

\* the lines read so far that hold a value of FOM f
CapturesOf(f) ==
    {p \in ReadSoFar :
        /\ LineAt(p).fom[f] # NoMatch
        /\ figures_of_merit(an_conf)[f].group
        /\ f \in Range(FileFoms(an_conf, FileAt(p[1])))}

\* those that hold it under the display value
CapturesAt(f, shown) == {p \in CapturesOf(f) : shown \in TagsAt(f, p)}

\* the display values a context can take, and null
DisplayValues ==
    {NullContext} \cup
    {format_context(v, figure_of_merit_contexts[c].output_format) :
        c \in Contexts, v \in {line.ctx[d] : line \in LinePool, d \in Contexts} \ {NoMatch}}

\* the places of the FOM name under the display value in the CONTEXTS of a
\* result
PlacesOf(contexts, name, shown) ==
    {place \in (1..Len(contexts)) \X (1..Len(FomOrder)) :
        /\ contexts[place[1]].name = shown
        /\ place[2] <= Len(contexts[place[1]].foms)
        /\ contexts[place[1]].foms[place[2]].name = name}

\* under each display value a line of the captures holds FOM f under, the
\* values hold what the last such line gives it
LastWins(f, captures, values) ==
    \A p \in captures : \A shown \in TagsAt(f, p) :
        (\A q \in captures : Before(p, q) => shown \notin TagsAt(f, q))
            => RecordOf(values, f, shown) = <<FomValue(LineAt(p).fom[f])>>

\* each pair of a display value and a FOM name in the values is of a line
\* of the captures
AllCaptured(values) ==
    \A i \in 1..Len(values) : \A j \in 1..Len(values[i][2]) :
        \E f \in Foms :
            /\ FomName(f) = values[i][2][j][1]
            /\ CapturesAt(f, values[i][1]) # {}

\* every file of the run was read to its end
AllRead == an_pc = "files" /\ an_file = Len(AnalysisFiles(an_conf))

\* the CONTEXTS hold each pair of a display value and a FOM name that the
\* values hold, with its value, at one place, and nothing else
ListedOnce(contexts, values) ==
    /\ \A i \in 1..Len(values) : \A j \in 1..Len(values[i][2]) :
          \E place \in PlacesOf(contexts, values[i][2][j][1], values[i][1]) :
              /\ PlacesOf(contexts, values[i][2][j][1], values[i][1]) = {place}
              /\ contexts[place[1]].foms[place[2]].value = values[i][2][j][2].value
    /\ \A i \in 1..Len(contexts) : \A j \in 1..Len(contexts[i].foms) :
          /\ DictHas(values, contexts[i].name)
          /\ DictHas(DictGet(values, contexts[i].name), contexts[i].foms[j].name)

\* C29: when every file was read, the value recorded for a FOM under a
\* context display value is that of the last line that holds the FOM under
\* that display value, and each pair of a context display value and a FOM
\* name that was recorded occurs exactly once in the CONTEXTS of the
\* result, with that value
C29_LastCaptureWins ==
    /\ AllRead =>
          /\ \A f \in Foms : LastWins(f, CapturesOf(f), fom_values)
          /\ AllCaptured(fom_values)
    /\ (an_pc = "done" /\ DictHas(results, "CONTEXTS")) =>
          ListedOnce(DictGet(results, "CONTEXTS"), fom_values)

\* a result whose CONTEXTS hold the second of two different values that two
\* lines gave a FOM under the same display value
C29_Witness ==
    /\ an_pc = "done"
    /\ DictHas(results, "CONTEXTS")
    /\ \E f \in Foms, shown \in DisplayValues :
          /\ \E p, q \in CapturesAt(f, shown) :
                Before(p, q) /\ LineAt(p).fom[f] # LineAt(q).fom[f]
          /\ \E place \in PlacesOf(DictGet(results, "CONTEXTS"), FomName(f), shown) :
                DictGet(results, "CONTEXTS")[place[1]].foms[place[2]].value
                    = LineAt(Last(CapturesAt(f, shown))).fom[f]


\* every pair of a display value and a FOM name the values hold is held
\* by the later values
Accumulated(values, later) ==
    \A i \in 1..Len(values) :
        /\ DictHas(later, values[i][1])
        /\ \A j \in 1..Len(values[i][2]) :
              DictHas(DictGet(later, values[i][1]), values[i][2][j][1])

\* the step records the value the line holds of FOM f under the display
\* values it belongs under by the lines of its own file, and leaves what
\* FOM f has under the others
TaggedInFile(f, p, values, later) ==
    \A shown \in DisplayValues :
        RecordOf(later, f, shown) =
            IF shown \in TagsAt(f, p)
            THEN <<FomValue(LineAt(p).fom[f])>>
            ELSE RecordOf(values, f, shown)

\* C30: opening a file leaves no context active and keeps the values
\* recorded; a line that holds a FOM records it under the display values
\* of the contexts that lines of the same file activated, under null for a
\* context that no line of the file activated, and every pair recorded
\* before stays recorded
C30_ContextsPerFile ==
    [][/\ an_file' = an_file + 1 =>
             active_contexts' = <<>> /\ fom_values' = fom_values
       /\ (an_pc = "lines" /\ an_line' = an_line + 1) =>
             /\ Accumulated(fom_values, fom_values')
             /\ \A f \in {g \in Foms : Captures(g, NextLine)} :
                   TaggedInFile(f, <<an_file, an_line + 1>>, fom_values, fom_values')]_vars

\* a line of the second file holds a FOM whose context only a line of the
\* first file activated: the value is under null, beside what the first
\* file recorded under the display value of the context
C30_Witness ==
    /\ an_pc \in {"lines", "files"}
    /\ an_file = 2
    /\ an_line > 0
    /\ \E f \in Foms, c \in Contexts :
          /\ FomMatched(f)
          /\ FomDeclares(f) = {c}
          /\ ActivationsAt(c, <<2, an_line>>) = {}
          /\ ActivationsAt(c, <<1, Len(an_logs[FileAt(1)])>>) # {}
          /\ RecordedUnder(f, NullContext)
          /\ \E g \in Foms \ {f}, shown \in DisplayValues \ {NullContext} :
                /\ RecordOf(fom_values, g, shown) # <<>>
                /\ RecordOf(fom_values, f, shown) = <<>>

====
